---------------------------- MODULE Spec2Model ----------------------------
(***************************************************************************)
(* Module progression and quiz grading of the course platform backend     *)
(* (backend/server.py): the module_progress collection, the five learning  *)
(* module routes and the arithmetic of the pass decision.                  *)
(*                                                                         *)
(* Spec      requests handled one at a time (each handler is one action).  *)
(* SpecConc  two requests in flight, one step per awaited database call.   *)
(* SpecGrade the pass decision as a pure function of the question count    *)
(*           and the number of correct answers.                            *)
(* SpecReview one submission with every answer list of the right length.   *)
(* SpecTwo   two enrolled learners, requests handled one at a time.        *)
(* SpecSeed  the requests of one learner and POST /seed-modules.           *)
(* SpecQuiz  one learner on a catalog with a quiz of 0..MaxQuizLen         *)
(*           questions.                                                    *)
(* SpecLive  the requests of one learner, who keeps working on the lowest  *)
(*           module not yet completed (weak fairness).                     *)
(* SpecPay   checkout, payment status poll and Stripe webhook.             *)
(***************************************************************************)
EXTENDS Integers, Sequences, FiniteSets, TLC

(***************************************************************************)
(* Bounds of the model.                                                    *)
(***************************************************************************)
NumModules == 3        \* modules seeded for the course (the seed has 10)
MaxClock == 3          \* graded submissions (each reads the clock once)
MaxQuestions == 13     \* longest quiz of SpecGrade
MaxRequests == 3       \* requests started in SpecConc, handled in SpecTwo
MaxSeedings == 1       \* runs of seed_modules after the first (SpecSeed)
MaxQuizLen == 2        \* questions of the shortened quiz (SpecQuiz)
MaxSessions == 2       \* checkout sessions created (SpecPay)

(***************************************************************************)
(* Python floats: IEEE 754 binary64, round to nearest, ties to even.  A    *)
(* non-zero float is 1.f * 2^exp; the 52 bits of the fraction f are kept   *)
(* as FracLimbs limbs of LimbBits bits, most significant first.  Zero has  *)
(* the exponent ZeroExp, below every exponent of a non-zero value, and an  *)
(* all-zero fraction.  Only non-negative values occur.                     *)
(***************************************************************************)
FracLimbs == 4
LimbBits == 13
ZeroExp == -1075

RECURSIVE Pow2(_)
Pow2(k) == IF k = 0 THEN 1 ELSE 2 * Pow2(k - 1)

LimbBase == Pow2(LimbBits)

FloatZero == [exp |-> ZeroExp, frac |-> [i \in 1..FracLimbs |-> 0]]

RECURSIVE DivLimbs(_, _, _)
\* n limbs of the binary expansion of r/d (0 <= r < d), and the remainder.
DivLimbs(r, d, n) ==
    IF n = 0 THEN [limbs |-> <<>>, rem |-> r]
    ELSE LET q == (r * LimbBase) \div d
             rest == DivLimbs((r * LimbBase) % d, d, n - 1)
         IN [limbs |-> <<q>> \o rest.limbs, rem |-> rest.rem]

RECURSIVE ShiftUp(_, _, _)
\* smallest k with num * 2^k >= den, for 0 < num
ShiftUp(num, den, k) ==
    IF num >= den THEN k ELSE ShiftUp(2 * num, den, k + 1)

RECURSIVE ShiftDown(_, _, _)
\* largest k with den * 2^k <= num, for num >= den
ShiftDown(num, den, k) ==
    IF 2 * den > num THEN k ELSE ShiftDown(num, 2 * den, k + 1)

RECURSIVE IncrLimbs(_)
\* the fraction plus one unit in the last place; carry tells overflow
IncrLimbs(limbs) ==
    IF limbs = <<>> THEN [limbs |-> <<>>, carry |-> 1]
    ELSE LET n == Len(limbs)
             head == SubSeq(limbs, 1, n - 1)
         IN IF limbs[n] < LimbBase - 1
            THEN [limbs |-> head \o <<limbs[n] + 1>>, carry |-> 0]
            ELSE LET up == IncrLimbs(head)
                 IN [limbs |-> up.limbs \o <<0>>, carry |-> up.carry]

\* The float nearest to the rational num/den (num >= 0, den > 0): what int
\* true division and the parsing of a decimal literal both return.
FloatOfRatio(num, den) ==
    IF num = 0 THEN FloatZero
    ELSE LET up == IF num >= den THEN 0 ELSE ShiftUp(num, den, 0)
             down == IF num >= den THEN ShiftDown(num, den, 0) ELSE 0
             n == num * Pow2(up)
             d == den * Pow2(down)
             \* n/d is in [1, 2): the leading bit is 1, n/d - 1 the fraction
             trunc == DivLimbs(n - d, d, FracLimbs)
             guard == IF 2 * trunc.rem >= d THEN 1 ELSE 0
             sticky == 2 * trunc.rem - guard * d > 0
             odd == trunc.limbs[FracLimbs] % 2 = 1
             roundUp == guard = 1 /\ (sticky \/ odd)
             inc == IncrLimbs(trunc.limbs)
         IN IF ~roundUp THEN [exp |-> down - up, frac |-> trunc.limbs]
            ELSE IF inc.carry = 0 THEN [exp |-> down - up, frac |-> inc.limbs]
            ELSE [exp |-> down - up + 1, frac |-> [i \in 1..FracLimbs |-> 0]]

RECURSIVE LexLess(_, _)
LexLess(a, b) ==
    IF a = <<>> THEN FALSE
    ELSE IF a[1] # b[1] THEN a[1] < b[1]
    ELSE LexLess(Tail(a), Tail(b))

\* x < y, x > y and x >= y on non-negative floats
FloatLess(x, y) ==
    \/ x.exp < y.exp
    \/ x.exp = y.exp /\ LexLess(x.frac, y.frac)

FloatGreater(x, y) == FloatLess(y, x)

FloatGE(x, y) == ~FloatLess(x, y)

RECURSIVE MulLimbs(_, _)
\* limbs * k as limbs of the same length, and the carry out of the top limb
MulLimbs(limbs, k) ==
    IF limbs = <<>> THEN [limbs |-> <<>>, carry |-> 0]
    ELSE LET low == MulLimbs(Tail(limbs), k)
             v == limbs[1] * k + low.carry
         IN [limbs |-> <<v % LimbBase>> \o low.limbs, carry |-> v \div LimbBase]

RECURSIVE BitLength(_)
BitLength(c) == IF c = 0 THEN 0 ELSE 1 + BitLength(c \div 2)

\* The float x * k for an int k with 0 <= k < LimbBase: the exact product
\* 1.f * k, shifted right until it is in [1, 2) again and rounded once.
FloatTimesInt(x, k) ==
    IF x = FloatZero \/ k = 0 THEN FloatZero
    ELSE LET product == MulLimbs(x.frac, k)
             top == k + product.carry            \* the integer part
             shift == BitLength(top) - 1
             unit == Pow2(shift)
             \* the limbs above each limb of the product
             above == <<top % unit>> \o product.limbs
             frac == [i \in 1..FracLimbs |->
                        (above[i] % unit) * (LimbBase \div unit)
                            + product.limbs[i] \div unit]
             dropped == product.limbs[FracLimbs] % unit
             guard == shift > 0 /\ dropped >= unit \div 2
             sticky == shift > 0 /\ dropped % (unit \div 2) > 0
             roundUp == guard /\ (sticky \/ frac[FracLimbs] % 2 = 1)
             inc == IncrLimbs(frac)
         IN IF ~roundUp THEN [exp |-> x.exp + shift, frac |-> frac]
            ELSE IF inc.carry = 0
                 THEN [exp |-> x.exp + shift, frac |-> inc.limbs]
            ELSE [exp |-> x.exp + shift + 1,
                  frac |-> [i \in 1..FracLimbs |-> 0]]

(***************************************************************************)
(* The database.  A collection is the sequence of its documents in         *)
(* insertion order; None is the empty sequence and a found document d is   *)
(* <<d>>.  No collection has a unique index.                               *)
(***************************************************************************)
None == <<>>

\* a filter {field: value, ...} matches the documents with these values
Matches(doc, filter) == \A k \in DOMAIN filter : doc[k] = filter[k]

FindIndex(coll, filter) ==
    IF \E i \in 1..Len(coll) : Matches(coll[i], filter)
    THEN CHOOSE i \in 1..Len(coll) :
            /\ Matches(coll[i], filter)
            /\ \A j \in 1..(i - 1) : ~Matches(coll[j], filter)
    ELSE 0

\* collection.find_one(filter): the first matching document, or None
FindOne(coll, filter) ==
    LET i == FindIndex(coll, filter) IN IF i = 0 THEN None ELSE <<coll[i]>>

\* collection.find(filter).to_list()
Find(coll, filter) == SelectSeq(coll, LAMBDA doc : Matches(doc, filter))

\* collection.count_documents(filter)
CountDocuments(coll, filter) ==
    Cardinality({i \in 1..Len(coll) : Matches(coll[i], filter)})

\* collection.delete_many(filter)
DeleteMany(coll, filter) ==
    SelectSeq(coll, LAMBDA doc : ~Matches(doc, filter))

\* collection.insert_one(doc)
InsertOne(coll, doc) == Append(coll, doc)

\* a document with the fields of set replaced ($set)
SetFields(doc, set) ==
    [f \in DOMAIN doc |-> IF f \in DOMAIN set THEN set[f] ELSE doc[f]]

\* collection.update_one(filter, {"$set": set}): the first match is changed
UpdateOne(coll, filter, set) ==
    LET i == FindIndex(coll, filter)
    IN IF i = 0 THEN coll ELSE [coll EXCEPT ![i] = SetFields(@, set)]

(***************************************************************************)
(* Documents.  Identifiers stand for the uuid4 strings; a timestamp is a   *)
(* clock reading (1, 2, ...) and 0 stands for None.  The id and created_at *)
(* of a progress document are left out: no handler reads them.             *)
(***************************************************************************)
Users == {"u1", "u2"}              \* the learners who send requests
Learners == Users \cup {"u3", "u4"}
CourseId == "c1"           \* the ETT Foundational Course
EmptyCourseId == "c2"      \* a course of the catalog without modules
Courses == {CourseId}      \* the courses whose modules are requested
\* module ids: those of the first seeding are the first NumModules, those of
\* seeding number g the NumModules after the first g * NumModules
ModuleIdPool == <<"m1", "m2", "m3", "m4", "m5", "m6", "m7", "m8", "m9",
                  "m10", "m11", "m12">>
UnknownModuleId == "m0"    \* an id no module has

\* correct_answer of the quiz questions of the first seeded modules
AnswerKeys ==
    << <<1, 2, 1, 1, 1>>,
       <<1, 1, 2, 2, 1, 2>>,
       <<1, 1, 1, 2, 1>>,
       <<1, 2, 1, 1, 2>>,
       <<1, 1, 1, 1, 2, 1>> >>

Options == <<"opt0", "opt1", "opt2", "opt3">>

\* passing_score = 0.8
PassingScoreNum == 8
PassingScoreDen == 10
PassingScore == FloatOfRatio(PassingScoreNum, PassingScoreDen)

\* The id, the text and the explanation of question i of module n are all
\* written 100 * n + i, the title of module n is written 1000 * n.
QuizQuestion(n, i) ==
    [id |-> 100 * n + i, question |-> 100 * n + i, options |-> Options,
     correct_answer |-> AnswerKeys[n][i], explanation |-> 100 * n + i]

ModuleAssessment(n) ==
    [quiz_questions |-> [i \in 1..Len(AnswerKeys[n]) |-> QuizQuestion(n, i)],
     passing_score |-> PassingScore]

Module(n) ==
    [id |-> ModuleIdPool[n], course_id |-> CourseId, module_number |-> n,
     title |-> 1000 * n, assessment |-> ModuleAssessment(n)]

\* what seed_modules inserts when it runs for the time numbered g (from 0):
\* the same modules under new ids
SeededModules(g) ==
    [n \in 1..NumModules |->
        [Module(n) EXCEPT !.id = ModuleIdPool[g * NumModules + n]]]

ModuleProgress(user_id, course_id, module_id, is_unlocked) ==
    [user_id |-> user_id, course_id |-> course_id, module_id |-> module_id,
     is_unlocked |-> is_unlocked, is_completed |-> FALSE,
     quiz_attempts |-> 0, best_score |-> FloatZero,
     last_attempt_at |-> 0, completed_at |-> 0]

Enrollment(user_id, course_id, payment_status) ==
    [user_id |-> user_id, course_id |-> course_id,
     payment_status |-> payment_status]

(***************************************************************************)
(* A request in flight: the handler's arguments, its position (pc names    *)
(* the awaited database call it is about to make) and its local            *)
(* variables.  A handler runs without interruption between two awaits.     *)
(***************************************************************************)
IdleFrame ==
    [pc |-> "idle", op |-> "none", user_id |-> "", course_id |-> "",
     module_id |-> "", answers |-> <<>>,
     module |-> None,            \* module
     progress |-> None,          \* progress
     other |-> None,             \* prev_module, next_module, current_progress
     modules |-> <<>>,           \* modules (list)
     is_unlocked |-> FALSE,      \* is_unlocked (detail)
     update_data |-> <<>>,       \* update_data (submit)
     result |-> None,            \* the QuizResult (submit)
     total_modules |-> 0, completed_count |-> 0,
     response |-> [status |-> 0, body |-> ""]]

\* the frame of a request that has just been routed to its handler
StartFrame(op, user_id, course_id, module_id, answers) ==
    [IdleFrame EXCEPT !.pc = "enrollment", !.op = op, !.user_id = user_id,
                      !.course_id = course_id, !.module_id = module_id,
                      !.answers = answers]

\* return, or raise HTTPException(status_code, detail)
Done(f, status, body) ==
    [StartFrame(f.op, f.user_id, f.course_id, f.module_id, f.answers)
        EXCEPT !.pc = "done", !.response = [status |-> status, body |-> body]]

\* what one step of a handler leaves: its frame and the database
Ret(f, db) == [f |-> f, db |-> db]

\* mutant: an enrollment of any payment_status is accepted
CheckEnrollmentAnyStatus(db, f, next) ==
    IF FindOne(db.enrollments,
               [user_id |-> f.user_id, course_id |-> f.course_id]) = None
    THEN Done(f, 403, "Not enrolled in this course")
    ELSE [f EXCEPT !.pc = next]

\* db.enrollments.find_one({user_id, course_id, payment_status: "paid"})
CheckEnrollment(db, f, next) ==
    LET enrollment ==
            FindOne(db.enrollments,
                    [user_id |-> f.user_id, course_id |-> f.course_id,
                     payment_status |-> "paid"])
    IN IF enrollment = None
       THEN Done(f, 403, "Not enrolled in this course")
       ELSE [f EXCEPT !.pc = next]

\* mutant: the module is looked up by its id alone, in whatever course
FindModuleAnyCourse(db, f, next) ==
    LET module == FindOne(db.modules, [id |-> f.module_id])
    IN IF module = None
       THEN Done(f, 404, "Module not found")
       ELSE [f EXCEPT !.module = module, !.pc = next]

\* db.modules.find_one({id: module_id, course_id})
FindModule(db, f, next) ==
    LET module ==
            FindOne(db.modules, [id |-> f.module_id, course_id |-> f.course_id])
    IN IF module = None
       THEN Done(f, 404, "Module not found")
       ELSE [f EXCEPT !.module = module, !.pc = next]

\* db.module_progress.find_one({user_id, module_id})
FindProgress(db, user_id, module_id) ==
    FindOne(db.module_progress, [user_id |-> user_id, module_id |-> module_id])

(***************************************************************************)
(* GET /courses/{course_id}/modules                                        *)
(***************************************************************************)
\* mutant: the default view of a module without a document is locked
ProgressMapGetLocked(progress_records, module) ==
    LET hits == {i \in 1..Len(progress_records) :
                    progress_records[i].module_id = module.id}
    IN IF hits = {}
       THEN [is_unlocked |-> FALSE, is_completed |-> FALSE,
             quiz_attempts |-> 0, best_score |-> FloatZero]
       ELSE progress_records[CHOOSE i \in hits : \A j \in hits : j <= i]

\* mutant: the default view of a module without a document is unlocked
ProgressMapGetUnlocked(progress_records, module) ==
    LET hits == {i \in 1..Len(progress_records) :
                    progress_records[i].module_id = module.id}
    IN IF hits = {}
       THEN [is_unlocked |-> TRUE, is_completed |-> FALSE,
             quiz_attempts |-> 0, best_score |-> FloatZero]
       ELSE progress_records[CHOOSE i \in hits : \A j \in hits : j <= i]

\* progress_map: of several documents of a module the last one is kept
ProgressMapGet(progress_records, module) ==
    LET hits == {i \in 1..Len(progress_records) :
                    progress_records[i].module_id = module.id}
    IN IF hits = {}
       THEN [is_unlocked |-> module.module_number = 1,
             is_completed |-> FALSE, quiz_attempts |-> 0,
             best_score |-> FloatZero]
       ELSE progress_records[CHOOSE i \in hits : \A j \in hits : j <= i]

\* mutant: the default view of a module without a document is stored
get_course_modules_persisting(db, f) ==
    CASE f.pc = "enrollment" ->
            Ret(CheckEnrollment(db, f, "modules"), db)
      [] f.pc = "modules" ->
            Ret([f EXCEPT !.modules =
                        SortSeq(Find(db.modules, [course_id |-> f.course_id]),
                                LAMBDA x, y : x.module_number < y.module_number),
                          !.pc = "progress_records"], db)
      [] f.pc = "progress_records" ->
            LET progress_records ==
                    Find(db.module_progress,
                         [user_id |-> f.user_id, course_id |-> f.course_id])
                missing ==
                    SelectSeq(f.modules,
                        LAMBDA m : FindProgress(db, f.user_id, m.id) = None)
            IN Ret(Done(f, 200,
                        [i \in 1..Len(f.modules) |->
                            f.modules[i] @@
                            [progress |->
                                ProgressMapGet(progress_records,
                                               f.modules[i])]]),
                   [db EXCEPT !.module_progress =
                        @ \o [i \in 1..Len(missing) |->
                                ModuleProgress(f.user_id, f.course_id,
                                    missing[i].id,
                                    missing[i].module_number = 1)]])

get_course_modules(db, f) ==
    CASE f.pc = "enrollment" ->
            Ret(CheckEnrollment(db, f, "modules"), db)
      [] f.pc = "modules" ->
            Ret([f EXCEPT !.modules =
                        SortSeq(Find(db.modules, [course_id |-> f.course_id]),
                                LAMBDA x, y : x.module_number < y.module_number),
                          !.pc = "progress_records"], db)
      [] f.pc = "progress_records" ->
            LET progress_records ==
                    Find(db.module_progress,
                         [user_id |-> f.user_id, course_id |-> f.course_id])
            IN Ret(Done(f, 200,
                        [i \in 1..Len(f.modules) |->
                            f.modules[i] @@
                            [progress |->
                                ProgressMapGet(progress_records,
                                               f.modules[i])]]), db)

(***************************************************************************)
(* GET /courses/{course_id}/modules/{module_id}                            *)
(***************************************************************************)
\* the handler's tail: the unlock check and the returned document
DetailReturn(f, progress) ==
    IF ~progress.is_unlocked
    THEN Done(f, 403, "Module is locked. Complete previous module first.")
    ELSE Done(f, 200, f.module[1] @@ [progress |-> progress])

\* mutant: the is_completed filter is dropped
PrevProgressAnyState(db, user_id, prev_module) ==
    FindOne(db.module_progress,
            [user_id |-> user_id, module_id |-> prev_module.id])

\* db.module_progress.find_one({user_id, module_id: prev_module["id"],
\*                                 is_completed: True})
PrevProgress(db, user_id, prev_module) ==
    FindOne(db.module_progress,
            [user_id |-> user_id, module_id |-> prev_module.id,
             is_completed |-> TRUE])

\* mutant: a locked document is not stored
CreateProgressIfUnlocked(coll, progress) ==
    IF progress.is_unlocked THEN InsertOne(coll, progress) ELSE coll

\* await db.module_progress.insert_one(progress)
CreateProgress(coll, progress) == InsertOne(coll, progress)

get_module_detail(db, f) ==
    CASE f.pc = "enrollment" -> Ret(CheckEnrollment(db, f, "module"), db)
      [] f.pc = "module" -> Ret(FindModule(db, f, "progress"), db)
      [] f.pc = "progress" ->
            LET progress == FindProgress(db, f.user_id, f.module_id)
            IN IF progress # None THEN Ret(DetailReturn(f, progress[1]), db)
               ELSE IF f.module[1].module_number = 1
               THEN Ret([f EXCEPT !.is_unlocked = TRUE, !.pc = "insert"], db)
               ELSE Ret([f EXCEPT !.pc = "prev_module"], db)
      [] f.pc = "prev_module" ->
            LET prev_module ==
                    FindOne(db.modules,
                            [course_id |-> f.course_id,
                             module_number |-> f.module[1].module_number - 1])
            IN IF prev_module # None
               THEN Ret([f EXCEPT !.other = prev_module,
                                  !.pc = "prev_progress"], db)
               ELSE Ret([f EXCEPT !.is_unlocked = FALSE, !.pc = "insert"], db)
      [] f.pc = "prev_progress" ->
            LET prev_progress == PrevProgress(db, f.user_id, f.other[1])
            IN Ret([f EXCEPT !.is_unlocked = (prev_progress # None),
                             !.pc = "insert"], db)
      [] f.pc = "insert" ->
            LET progress == ModuleProgress(f.user_id, f.course_id,
                                           f.module_id, f.is_unlocked)
            IN Ret(DetailReturn(f, progress),
                   [db EXCEPT !.module_progress = CreateProgress(@, progress)])

(***************************************************************************)
(* GET /courses/{course_id}/modules/{module_id}/quiz                       *)
(***************************************************************************)
\* mutant: only a missing document locks the quiz
QuizLockedIfMissing(progress) == progress = None

\* not progress or not progress.get("is_unlocked")
QuizLocked(progress) == progress = None \/ ~progress[1].is_unlocked

\* mutant: the questions are returned as they are stored
QuizQuestionsUnstripped(questions) == questions

\* quiz_questions: id, question and options of every question
QuizQuestions(questions) ==
    [i \in 1..Len(questions) |->
        [id |-> questions[i].id,
         question |-> questions[i].question,
         options |-> questions[i].options]]

get_module_quiz(db, f) ==
    CASE f.pc = "enrollment" -> Ret(CheckEnrollment(db, f, "module"), db)
      [] f.pc = "module" -> Ret(FindModule(db, f, "progress"), db)
      [] f.pc = "progress" ->
            LET progress == FindProgress(db, f.user_id, f.module_id)
                questions == f.module[1].assessment.quiz_questions
            IN IF QuizLocked(progress)
               THEN Ret(Done(f, 403, "Module is locked"), db)
               ELSE Ret(Done(f, 200,
                        [module_id |-> f.module_id,
                         module_title |-> f.module[1].title,
                         questions |-> QuizQuestions(questions),
                         passing_score |-> f.module[1].assessment.passing_score,
                         attempts |-> progress[1].quiz_attempts,
                         best_score |-> progress[1].best_score]), db)

(***************************************************************************)
(* POST /courses/{course_id}/modules/{module_id}/submit-quiz               *)
(***************************************************************************)
\* mutant: only a missing document locks the submission
SubmitLockedIfMissing(progress) == progress = None

\* not progress or not progress.get("is_unlocked")
SubmitLocked(progress) == progress = None \/ ~progress[1].is_unlocked

\* mutant: the lengths are not compared
LengthMismatchIgnored(answers, questions) == FALSE

\* len(submission.answers) != len(questions)
LengthMismatch(answers, questions) == Len(answers) # Len(questions)

\* the positions zip(submission.answers, questions) pairs
Zip(answers, questions) ==
    1..(IF Len(answers) < Len(questions) THEN Len(answers) ELSE Len(questions))

\* mutant: the stored index is taken as counting from 1
IsCorrectFromOne(user_answer, question) ==
    user_answer + 1 = question.correct_answer

\* is_correct = user_answer == question["correct_answer"]
IsCorrect(user_answer, question) == user_answer = question.correct_answer

\* mutant: a negative index is not caught and counts from the end
UserAnswerWrapping(user_answer, question) ==
    IF user_answer < Len(question.options)
    THEN question.options[(user_answer % Len(question.options)) + 1]
    ELSE "No answer"

\* question["options"][user_answer]
\*     if 0 <= user_answer < len(question["options"]) else "No answer"
UserAnswer(user_answer, question) ==
    IF 0 <= user_answer /\ user_answer < Len(question.options)
    THEN question.options[user_answer + 1]
    ELSE "No answer"

CorrectCount(answers, questions) ==
    Cardinality({i \in Zip(answers, questions) :
                    IsCorrect(answers[i], questions[i])})

QuestionsReview(answers, questions) ==
    [i \in Zip(answers, questions) |->
        [question_number |-> i,
         question |-> questions[i].question,
         user_answer |-> UserAnswer(answers[i], questions[i]),
         correct_answer |->
            questions[i].options[questions[i].correct_answer + 1],
         is_correct |-> IsCorrect(answers[i], questions[i]),
         explanation |-> questions[i].explanation]]

\* the quotients of the counts of a quiz of up to MaxQuestions questions,
\* computed once
Quotients ==
    [total \in 1..MaxQuestions |->
        [count \in 0..total |-> FloatOfRatio(count, total)]]

\* score = correct_count / len(questions)
Score(correct_count, total_questions) ==
    IF /\ total_questions \in DOMAIN Quotients
       /\ correct_count \in DOMAIN Quotients[total_questions]
    THEN Quotients[total_questions][correct_count]
    ELSE FloatOfRatio(correct_count, total_questions)

\* mutant: the threshold itself does not pass
PassedAboveOnly(score, passing_score) == FloatGreater(score, passing_score)

\* mutant: every score passes
PassedOnAnyScore(score, passing_score) == TRUE

\* passed = score >= module["assessment"]["passing_score"]
Passed(score, passing_score) == FloatGE(score, passing_score)

\* mutant: best_score is written by every graded submission
BeatsBestAlways(score, progress) == TRUE

\* score > progress.get("best_score", 0)
BeatsBest(score, progress) == FloatGreater(score, progress.best_score)

\* mutant: any graded submission completes the module
CompletesOnFail(passed, progress) == ~progress.is_completed

\* mutant: every passing submission completes the module again
CompletesOnEveryPass(passed, progress) == passed

\* passed and not progress.get("is_completed")
Completes(passed, progress) == passed /\ ~progress.is_completed

\* mutant: is_completed is written on every submission, as the last outcome
UpdateDataLastOutcome(progress, score, passed, now) ==
    [quiz_attempts |-> progress.quiz_attempts + 1, last_attempt_at |-> now,
     is_completed |-> passed]
    @@ (IF BeatsBest(score, progress) THEN [best_score |-> score] ELSE <<>>)
    @@ (IF Completes(passed, progress) THEN [completed_at |-> now] ELSE <<>>)

\* mutant: a submission on a completed module is not counted
UpdateDataUncountedRetake(progress, score, passed, now) ==
    [quiz_attempts |-> IF progress.is_completed THEN progress.quiz_attempts
                       ELSE progress.quiz_attempts + 1,
     last_attempt_at |-> now]
    @@ (IF BeatsBest(score, progress) THEN [best_score |-> score] ELSE <<>>)
    @@ (IF Completes(passed, progress)
        THEN [is_completed |-> TRUE, completed_at |-> now] ELSE <<>>)

\* mutant: the completing submission sets is_completed without completed_at
UpdateDataCompletedUndated(progress, score, passed, now) ==
    [quiz_attempts |-> progress.quiz_attempts + 1, last_attempt_at |-> now]
    @@ (IF BeatsBest(score, progress) THEN [best_score |-> score] ELSE <<>>)
    @@ (IF Completes(passed, progress) THEN [is_completed |-> TRUE] ELSE <<>>)

\* update_data: the fields the submission sets on its progress document
UpdateData(progress, score, passed, now) ==
    [quiz_attempts |-> progress.quiz_attempts + 1, last_attempt_at |-> now]
    @@ (IF BeatsBest(score, progress) THEN [best_score |-> score] ELSE <<>>)
    @@ (IF Completes(passed, progress)
        THEN [is_completed |-> TRUE, completed_at |-> now] ELSE <<>>)

\* mutant: the module two numbers ahead is taken as the next one
NextModuleSkipping(db, course_id, module) ==
    FindOne(db.modules,
            [course_id |-> course_id,
             module_number |-> module.module_number + 2])

\* mutant: after the last module the first one is taken as the next
NextModuleWrapping(db, course_id, module) ==
    LET next == FindOne(db.modules,
                        [course_id |-> course_id,
                         module_number |-> module.module_number + 1])
    IN IF next # None THEN next
       ELSE FindOne(db.modules,
                    [course_id |-> course_id, module_number |-> 1])

\* db.modules.find_one({course_id, module_number: module_number + 1})
NextModule(db, course_id, module) ==
    FindOne(db.modules,
            [course_id |-> course_id,
             module_number |-> module.module_number + 1])

\* mutant: the next module's document is never found
NextProgressAbsent(db, user_id, next_module) == None

\* db.module_progress.find_one({user_id, module_id: next_module["id"]})
NextProgress(db, user_id, next_module) ==
    FindProgress(db, user_id, next_module.id)

\* mutant: an existing document of the next module is left as it is
UnlockProgressSkipped(coll, user_id, module_id) == coll

\* mutant: the filter of the update names the learner alone
UnlockProgressOfLearner(coll, user_id, module_id) ==
    UpdateOne(coll, [user_id |-> user_id], [is_unlocked |-> TRUE])

\* db.module_progress.update_one({user_id, module_id: next_module["id"]},
\*                               {"$set": {"is_unlocked": True}})
UnlockProgress(coll, user_id, module_id) ==
    UpdateOne(coll, [user_id |-> user_id, module_id |-> module_id],
              [is_unlocked |-> TRUE])

\* mutant: the document is looked up by its module alone
UpdateProgressAnyLearner(coll, user_id, module_id, update_data) ==
    UpdateOne(coll, [module_id |-> module_id], update_data)

\* db.module_progress.update_one({user_id, module_id}, {"$set": update_data})
UpdateProgress(coll, user_id, module_id, update_data) ==
    UpdateOne(coll, [user_id |-> user_id, module_id |-> module_id],
              update_data)

submit_quiz(db, f) ==
    CASE f.pc = "enrollment" -> Ret(CheckEnrollment(db, f, "module"), db)
      [] f.pc = "module" -> Ret(FindModule(db, f, "progress"), db)
      [] f.pc = "progress" ->
            LET progress == FindProgress(db, f.user_id, f.module_id)
                questions == f.module[1].assessment.quiz_questions
                correct_count == CorrectCount(f.answers, questions)
                score == Score(correct_count, Len(questions))
                passed == Passed(score, f.module[1].assessment.passing_score)
                now == db.clock + 1
            IN IF SubmitLocked(progress)
               THEN Ret(Done(f, 403, "Module is locked"), db)
               ELSE IF LengthMismatch(f.answers, questions)
               THEN Ret(Done(f, 400, "Invalid number of answers"), db)
               ELSE IF Len(questions) = 0
               THEN Ret(Done(f, 500, "ZeroDivisionError"), db)
               ELSE Ret([f EXCEPT
                            !.progress = progress,
                            !.result =
                                <<[score |-> score,
                                   total_questions |-> Len(questions),
                                   correct_answers |-> correct_count,
                                   passed |-> passed,
                                   questions_review |->
                                       QuestionsReview(f.answers, questions)]>>,
                            !.update_data =
                                UpdateData(progress[1], score, passed, now),
                            !.pc = IF Completes(passed, progress[1])
                                   THEN "next_module" ELSE "update"],
                        [db EXCEPT !.clock = now])
      [] f.pc = "next_module" ->
            LET next_module == NextModule(db, f.course_id, f.module[1])
            IN IF next_module # None
               THEN Ret([f EXCEPT !.other = next_module,
                                  !.pc = "next_progress"], db)
               ELSE Ret([f EXCEPT !.pc = "update"], db)
      [] f.pc = "next_progress" ->
            LET next_progress == NextProgress(db, f.user_id, f.other[1])
            IN IF next_progress # None
               THEN Ret([f EXCEPT !.pc = "unlock_update"], db)
               ELSE Ret([f EXCEPT !.pc = "unlock_insert"], db)
      [] f.pc = "unlock_update" ->
            Ret([f EXCEPT !.pc = "update"],
                [db EXCEPT !.module_progress =
                    UnlockProgress(@, f.user_id, f.other[1].id)])
      [] f.pc = "unlock_insert" ->
            Ret([f EXCEPT !.pc = "update"],
                [db EXCEPT !.module_progress =
                    InsertOne(@, ModuleProgress(f.user_id, f.course_id,
                                                f.other[1].id, TRUE))])
      [] f.pc = "update" ->
            Ret(Done(f, 200, f.result[1]),
                [db EXCEPT !.module_progress =
                    UpdateProgress(@, f.user_id, f.module_id,
                                   f.update_data)])

(***************************************************************************)
(* GET /courses/{course_id}/progress                                       *)
(***************************************************************************)
\* mutant: the division is made whatever total_modules is; dividing by 0
\* leaves a value that is no progress
OverallProgressUnguarded(completed_count, total_modules) ==
    IF total_modules # 0
    THEN FloatTimesInt(FloatOfRatio(completed_count, total_modules), 100)
    ELSE [FloatZero EXCEPT !.exp = ZeroExp - 1]

\* (completed_count / total_modules * 100) if total_modules > 0 else 0
OverallProgress(completed_count, total_modules) ==
    IF total_modules > 0
    THEN FloatTimesInt(FloatOfRatio(completed_count, total_modules), 100)
    ELSE FloatZero

\* the UserProgressSummary
ProgressSummary(f, current_module) ==
    [course_id |-> f.course_id,
     total_modules |-> f.total_modules,
     completed_modules |-> f.completed_count,
     current_module |-> current_module,
     overall_progress |->
        OverallProgress(f.completed_count, f.total_modules)]

\* mutant: the module after the completed ones, not held at the last one
CurrentModuleUnclamped(completed_count, total_modules) == completed_count + 1

\* current_module without an unlocked, not completed document:
\* completed_count + 1 if completed_count < total_modules else total_modules
CurrentModule(completed_count, total_modules) ==
    IF completed_count < total_modules
    THEN completed_count + 1
    ELSE total_modules

get_course_progress(db, f) ==
    CASE f.pc = "enrollment" ->
            Ret(CheckEnrollment(db, f, "total_modules"), db)
      [] f.pc = "total_modules" ->
            Ret([f EXCEPT !.total_modules =
                            CountDocuments(db.modules,
                                           [course_id |-> f.course_id]),
                          !.pc = "completed_count"], db)
      [] f.pc = "completed_count" ->
            Ret([f EXCEPT !.completed_count =
                            CountDocuments(db.module_progress,
                                [user_id |-> f.user_id,
                                 course_id |-> f.course_id,
                                 is_completed |-> TRUE]),
                          !.pc = "current_progress"], db)
      [] f.pc = "current_progress" ->
            LET current_progress ==
                    FindOne(db.module_progress,
                            [user_id |-> f.user_id,
                             course_id |-> f.course_id,
                             is_unlocked |-> TRUE, is_completed |-> FALSE])
            IN IF current_progress # None
               THEN Ret([f EXCEPT !.other = current_progress,
                                  !.pc = "current_module"], db)
               ELSE Ret(Done(f, 200,
                        ProgressSummary(f,
                            CurrentModule(f.completed_count,
                                          f.total_modules))), db)
      [] f.pc = "current_module" ->
            LET current_module_doc ==
                    FindOne(db.modules, [id |-> f.other[1].module_id])
            IN Ret(Done(f, 200,
                        ProgressSummary(f,
                            IF current_module_doc # None
                            THEN current_module_doc[1].module_number
                            ELSE 1)), db)

(***************************************************************************)
(* The state: the enrollments, modules and module_progress collections,    *)
(* the clock behind datetime.now(), the requests in flight (SpecConc) with *)
(* the number received so far, the input and outcome of the pass decision  *)
(* (SpecGrade), and, for the payment routes (SpecPay), the                 *)
(* payment_transactions collection and the checkout sessions Stripe holds. *)
(***************************************************************************)
VARIABLES enrollments, modules, module_progress, clock, frames, received,
          grading, payment_transactions, sessions

vars == <<enrollments, modules, module_progress, clock, frames, received,
          grading, payment_transactions, sessions>>

Procs == {1, 2}

Db == [enrollments |-> enrollments, modules |-> modules,
       module_progress |-> module_progress, clock |-> clock]

NoGrading ==
    [total_questions |-> 0, correct_count |-> 0, graded |-> FALSE,
     passed |-> FALSE]

\* u1 has paid for the course and for the course without modules, the
\* checkout of u2 is still pending, that of u3 has expired and u4 never
\* started one.
Init ==
    /\ modules = SeededModules(0)
    /\ enrollments = <<Enrollment("u1", CourseId, "paid"),
                       Enrollment("u1", EmptyCourseId, "paid"),
                       Enrollment("u2", CourseId, "pending"),
                       Enrollment("u3", CourseId, "expired")>>
    /\ module_progress = <<>>
    /\ clock = 0
    /\ frames = [p \in Procs |-> IdleFrame]
    /\ received = 0
    /\ payment_transactions = <<>>
    /\ sessions = <<>>
    /\ grading = NoGrading

\* mutant: submit_quiz compares the lengths as soon as it has the module,
\* before it looks at the progress document
StepLengthFirst(db, f) ==
    IF /\ f.op = "submit"
       /\ f.pc = "progress"
       /\ LengthMismatch(f.answers, f.module[1].assessment.quiz_questions)
    THEN Ret(Done(f, 400, "Invalid number of answers"), db)
    ELSE CASE f.op = "list" -> get_course_modules(db, f)
           [] f.op = "detail" -> get_module_detail(db, f)
           [] f.op = "quiz" -> get_module_quiz(db, f)
           [] f.op = "submit" -> submit_quiz(db, f)
           [] f.op = "progress" -> get_course_progress(db, f)

\* one step of the handler of f: up to and including its next database call
Step(db, f) ==
    CASE f.op = "list" -> get_course_modules(db, f)
      [] f.op = "detail" -> get_module_detail(db, f)
      [] f.op = "quiz" -> get_module_quiz(db, f)
      [] f.op = "submit" -> submit_quiz(db, f)
      [] f.op = "progress" -> get_course_progress(db, f)

RECURSIVE Run(_, _)
\* the handler of f run to its end without another request in between
Run(db, f) ==
    IF f.pc = "done" THEN Ret(f, db)
    ELSE LET r == Step(db, f) IN Run(r.db, r.f)

RECURSIVE Awaited(_, _)
\* the database calls the handler of f makes when run to its end: the
\* positions it passes
Awaited(db, f) ==
    IF f.pc = "done" THEN {}
    ELSE LET r == Step(db, f) IN {f.pc} \cup Awaited(r.db, r.f)

\* a request handled on db: the response and the database it leaves
Handle(db, op, user_id, course_id, module_id, answers) ==
    Run(db, StartFrame(op, user_id, course_id, module_id, answers))

(***************************************************************************)
(* The requests the model sends.                                           *)
(***************************************************************************)
ModuleIds == {ModuleIdPool[n] : n \in 1..NumModules} \cup {UnknownModuleId}

\* answers that are right on the first k questions and wrong on the others
FirstCorrect(key, k) ==
    [i \in 1..Len(key) |-> IF i <= k THEN key[i] ELSE (key[i] + 1) % 4]

\* the correct_answer of the questions of a seeded module
KeyOf(module_id) ==
    AnswerKeys[CHOOSE n \in 1..NumModules :
                  \E g \in 0..MaxSeedings :
                      ModuleIdPool[g * NumModules + n] = module_id]

\* All right; all right but one index out of range; two wrong; one right;
\* all wrong; one answer short; one answer long.
AnswerInputs(module_id) ==
    IF module_id = UnknownModuleId THEN {<<>>}
    ELSE LET key == KeyOf(module_id)
         IN {key, [key EXCEPT ![1] = -1], FirstCorrect(key, Len(key) - 2),
             FirstCorrect(key, 1), FirstCorrect(key, 0),
             SubSeq(key, 1, Len(key) - 1), key \o <<0>>}

\* the five operations
Ops == {"list", "detail", "quiz", "submit", "progress"}

\* the requests a learner can send for an operation: (module_id, answers)
Requests(op) ==
    IF op \in {"list", "progress"} THEN {<<"", <<>> >>}
    ELSE IF op = "submit"
    THEN UNION {{<<m, a>> : a \in AnswerInputs(m)} : m \in ModuleIds}
    ELSE {<<m, <<>> >> : m \in ModuleIds}

(***************************************************************************)
(* Spec: requests handled one at a time; a handler is one action.          *)
(***************************************************************************)
\* the database after a handler has returned
Handled(r) ==
    /\ r.db.clock <= MaxClock
    /\ module_progress' = r.db.module_progress
    /\ clock' = r.db.clock
    /\ UNCHANGED <<payment_transactions, sessions>>
    /\ UNCHANGED <<enrollments, modules, frames, received, grading>>

GetCourseModules(user_id, course_id) ==
    /\ \A p \in Procs : frames[p].pc = "idle"
    /\ \E r \in {Handle(Db, "list", user_id, course_id, "", <<>>)} : Handled(r)

GetModuleDetail(user_id, course_id, module_id) ==
    /\ \A p \in Procs : frames[p].pc = "idle"
    /\ \E r \in {Handle(Db, "detail", user_id, course_id, module_id, <<>>)} :
            Handled(r)

GetModuleQuiz(user_id, course_id, module_id) ==
    /\ \A p \in Procs : frames[p].pc = "idle"
    /\ \E r \in {Handle(Db, "quiz", user_id, course_id, module_id, <<>>)} :
            Handled(r)

SubmitQuiz(user_id, course_id, module_id, answers) ==
    /\ \A p \in Procs : frames[p].pc = "idle"
    /\ \E r \in {Handle(Db, "submit", user_id, course_id, module_id, answers)} :
            Handled(r)

GetCourseProgress(user_id, course_id) ==
    /\ \A p \in Procs : frames[p].pc = "idle"
    /\ \E r \in {Handle(Db, "progress", user_id, course_id, "", <<>>)} :
            Handled(r)

Next ==
    \/ \E u \in Users, c \in Courses : GetCourseModules(u, c)
    \/ \E u \in Users, c \in Courses, m \in ModuleIds : GetModuleDetail(u, c, m)
    \/ \E u \in Users, c \in Courses, m \in ModuleIds : GetModuleQuiz(u, c, m)
    \/ \E u \in Users, c \in Courses, m \in ModuleIds :
            \E answers \in AnswerInputs(m) : SubmitQuiz(u, c, m, answers)
    \/ \E u \in Users, c \in Courses : GetCourseProgress(u, c)

Spec == Init /\ [][Next]_vars

(***************************************************************************)
(* SpecConc: requests of one learner in flight together.  Receive routes   *)
(* a request to its handler; Await lets one handler make its next database *)
(* call and run on to the following await or to its return.  A returned    *)
(* handler keeps its response until the next request arrives.              *)
(***************************************************************************)
ConcUser == "u1"

\* all right (a pass) and two wrong (positive, but a fail)
ConcAnswerInputs(module_id) ==
    {KeyOf(module_id), FirstCorrect(KeyOf(module_id), Len(KeyOf(module_id)) - 2)}

Receive(p, op, module_id, answers) ==
    /\ frames[p].pc \in {"idle", "done"}
    /\ received < MaxRequests
    /\ received' = received + 1
    /\ frames' = [frames EXCEPT ![p] =
                    StartFrame(op, ConcUser, CourseId, module_id, answers)]
    /\ UNCHANGED <<payment_transactions, sessions>>
    /\ UNCHANGED <<enrollments, modules, module_progress, clock, grading>>

Await(p) ==
    /\ frames[p].pc \notin {"idle", "done"}
    /\ \E r \in {Step(Db, frames[p])} :
          /\ r.db.clock <= MaxClock
          /\ module_progress' = r.db.module_progress
          /\ clock' = r.db.clock
          /\ frames' = [frames EXCEPT ![p] = r.f]
    /\ UNCHANGED <<payment_transactions, sessions>>
    /\ UNCHANGED <<enrollments, modules, received, grading>>

NextConc ==
    \/ \E p \in Procs : Receive(p, "list", "", <<>>)
    \/ \E p \in Procs : Receive(p, "progress", "", <<>>)
    \/ \E p \in Procs, m \in ModuleIds \ {UnknownModuleId} :
            Receive(p, "detail", m, <<>>)
    \/ \E p \in Procs, m \in ModuleIds \ {UnknownModuleId} :
            Receive(p, "quiz", m, <<>>)
    \/ \E p \in Procs, m \in ModuleIds \ {UnknownModuleId} :
            \E answers \in ConcAnswerInputs(m) :
                Receive(p, "submit", m, answers)
    \/ \E p \in Procs : Await(p)

SpecConc == Init /\ [][NextConc]_vars

(***************************************************************************)
(* SpecGrade: the pass decision for every quiz length up to MaxQuestions   *)
(* and every number of correct answers, against the passing score.         *)
(***************************************************************************)
InitGrade ==
    /\ modules = SeededModules(0)
    /\ enrollments = <<>>
    /\ module_progress = <<>>
    /\ clock = 0
    /\ frames = [p \in Procs |-> IdleFrame]
    /\ received = 0
    /\ payment_transactions = <<>>
    /\ sessions = <<>>
    /\ \E n \in 1..MaxQuestions, k \in 0..MaxQuestions :
            /\ k <= n
            /\ grading = [total_questions |-> n, correct_count |-> k,
                          graded |-> FALSE, passed |-> FALSE]

GradeQuiz ==
    /\ ~grading.graded
    /\ grading' = [grading EXCEPT
                    !.graded = TRUE,
                    !.passed = Passed(Score(grading.correct_count,
                                            grading.total_questions),
                                      PassingScore)]
    /\ UNCHANGED <<payment_transactions, sessions>>
    /\ UNCHANGED <<enrollments, modules, module_progress, clock, frames,
                   received>>

NextGrade == GradeQuiz

SpecGrade == InitGrade /\ [][NextGrade]_vars

(***************************************************************************)
(* SpecReview: one submission with every answer list of the right length   *)
(* over the option indices and the two indices next to them, on a module   *)
(* the learner has just reached by passing the modules before it.          *)
(***************************************************************************)
AnswerValues == (0 - 1)..Len(Options)

\* the document of a module passed with all answers right at time at
PassedProgress(user_id, module_id, at) ==
    [ModuleProgress(user_id, CourseId, module_id, TRUE) EXCEPT
        !.is_completed = TRUE, !.quiz_attempts = 1,
        !.best_score = FloatOfRatio(1, 1),
        !.last_attempt_at = at, !.completed_at = at]

\* the store of a learner who passed modules 1..n-1 at the first attempt
StoreAt(user_id, n) ==
    [k \in 1..n |->
        IF k < n THEN PassedProgress(user_id, ModuleIdPool[k], k)
        ELSE ModuleProgress(user_id, CourseId, ModuleIdPool[k], TRUE)]

InitReview ==
    /\ modules = SeededModules(0)
    /\ enrollments = <<Enrollment("u1", CourseId, "paid")>>
    /\ received = 0
    /\ payment_transactions = <<>>
    /\ sessions = <<>>
    /\ grading = NoGrading
    /\ \E n \in 1..NumModules :
          /\ module_progress = StoreAt("u1", n)
          /\ clock = n - 1
          /\ \E answers \in [1..Len(AnswerKeys[n]) -> AnswerValues] :
                frames = [p \in Procs |->
                            IF p = 1
                            THEN StartFrame("submit", "u1", CourseId,
                                            ModuleIdPool[n], answers)
                            ELSE IdleFrame]

\* submit_quiz run from its call to its return
Submit ==
    /\ frames[1].pc = "enrollment"
    /\ \E r \in {Run(Db, frames[1])} :
          /\ frames' = [frames EXCEPT ![1] = r.f]
          /\ module_progress' = r.db.module_progress
          /\ clock' = r.db.clock
    /\ UNCHANGED <<payment_transactions, sessions>>
    /\ UNCHANGED <<enrollments, modules, received, grading>>

NextReview == Submit

SpecReview == InitReview /\ [][NextReview]_vars

(***************************************************************************)
(* SpecTwo: two learners with a paid enrollment.  u2 has already passed    *)
(* its first modules (or none, or has no document yet); then up to         *)
(* MaxRequests requests of either learner are handled, one at a time.      *)
(***************************************************************************)
InitTwo ==
    /\ modules = SeededModules(0)
    /\ enrollments = <<Enrollment("u1", CourseId, "paid"),
                       Enrollment("u2", CourseId, "paid")>>
    /\ frames = [p \in Procs |-> IdleFrame]
    /\ received = 0
    /\ payment_transactions = <<>>
    /\ sessions = <<>>
    /\ grading = NoGrading
    /\ \E n \in 0..NumModules :
          /\ module_progress = StoreAt("u2", n)
          /\ clock = IF n = 0 THEN 0 ELSE n - 1

\* a request handled from its call to its return
Serve(op, user_id, module_id, answers) ==
    /\ received < MaxRequests
    /\ received' = received + 1
    /\ \E r \in {Handle(Db, op, user_id, CourseId, module_id, answers)} :
          /\ module_progress' = r.db.module_progress
          /\ clock' = r.db.clock
    /\ UNCHANGED <<payment_transactions, sessions>>
    /\ UNCHANGED <<enrollments, modules, frames, grading>>

NextTwo ==
    \E u \in Users, op \in Ops :
        \E q \in Requests(op) : Serve(op, u, q[1], q[2])

SpecTwo == InitTwo /\ [][NextTwo]_vars

(***************************************************************************)
(* SpecSeed: the requests of the enrolled learner handled one at a time,   *)
(* and POST /seed-modules, which deletes the modules of the course and     *)
(* inserts them again under new ids.  The learner may take one graded      *)
(* submission more than the course has modules.                            *)
(***************************************************************************)
\* how often seed_modules has run after the first time, by the ids in use
SeedingOf(mods) ==
    CHOOSE g \in 0..MaxSeedings : mods[1].id = ModuleIdPool[g * NumModules + 1]

\* seed_modules: delete_many({course_id}), then one insert_one per module
seed_modules(mods, g) ==
    DeleteMany(mods, [course_id |-> CourseId]) \o SeededModules(g)

MaxSeedClock == NumModules + 1

\* the module ids of every seeding
SeededModuleIds ==
    {ModuleIdPool[i] : i \in 1..((MaxSeedings + 1) * NumModules)}

\* the requests of SpecSeed for an operation: (module_id, answers)
SeedRequests(op) ==
    IF op \in {"list", "progress"} THEN {<<"", <<>> >>}
    ELSE IF op = "submit"
    THEN UNION {{<<m, a>> : a \in ConcAnswerInputs(m)} : m \in SeededModuleIds}
    ELSE {<<m, <<>> >> : m \in SeededModuleIds}

ServeSeeded(op, module_id, answers) ==
    /\ \E r \in {Handle(Db, op, ConcUser, CourseId, module_id, answers)} :
          /\ r.db.clock <= MaxSeedClock
          /\ module_progress' = r.db.module_progress
          /\ clock' = r.db.clock
    /\ UNCHANGED <<payment_transactions, sessions>>
    /\ UNCHANGED <<enrollments, modules, frames, received, grading>>

SeedModules ==
    /\ SeedingOf(modules) < MaxSeedings
    /\ modules' = seed_modules(modules, SeedingOf(modules) + 1)
    /\ UNCHANGED <<payment_transactions, sessions>>
    /\ UNCHANGED <<enrollments, module_progress, clock, frames, received,
                   grading>>

NextSeed ==
    \/ \E op \in Ops : \E q \in SeedRequests(op) : ServeSeeded(op, q[1], q[2])
    \/ SeedModules

SpecSeed == Init /\ [][NextSeed]_vars

(***************************************************************************)
(* SpecQuiz: the catalog holds one module whose assessment has fewer       *)
(* questions than the seed gives it, down to none (quiz_questions defaults *)
(* to the empty list); the enrolled learner's requests are handled one at  *)
(* a time, the submissions with as many answers as the module has          *)
(* questions.                                                              *)
(***************************************************************************)
\* the seeded modules with the quiz of module n cut to its first len
\* questions
ModulesWithQuiz(n, len) ==
    [SeededModules(0) EXCEPT
        ![n].assessment.quiz_questions = SubSeq(@, 1, len)]

InitQuiz ==
    /\ \E n \in 1..NumModules, len \in 0..MaxQuizLen :
          modules = ModulesWithQuiz(n, len)
    /\ enrollments = <<Enrollment(ConcUser, CourseId, "paid")>>
    /\ module_progress = <<>>
    /\ clock = 0
    /\ frames = [p \in Procs |-> IdleFrame]
    /\ received = 0
    /\ payment_transactions = <<>>
    /\ sessions = <<>>
    /\ grading = NoGrading

\* one answer per question: right on the first k questions, for every k
RightLengthInputs(questions) ==
    {[i \in 1..Len(questions) |->
        IF i <= k THEN questions[i].correct_answer
        ELSE (questions[i].correct_answer + 1) % Len(Options)] :
     k \in 0..Len(questions)}

\* the requests of SpecQuiz for an operation: (module_id, answers)
QuizRequests(op) ==
    IF op \in {"list", "progress"} THEN {<<"", <<>> >>}
    ELSE IF op = "submit"
    THEN UNION {{<<modules[k].id, a>> :
                    a \in RightLengthInputs(modules[k].assessment.quiz_questions)} :
                k \in 1..Len(modules)}
    ELSE {<<modules[k].id, <<>> >> : k \in 1..Len(modules)}

ServeQuiz(op, module_id, answers) ==
    /\ \E r \in {Handle(Db, op, ConcUser, CourseId, module_id, answers)} :
          /\ r.db.clock <= MaxClock
          /\ module_progress' = r.db.module_progress
          /\ clock' = r.db.clock
    /\ UNCHANGED <<payment_transactions, sessions>>
    /\ UNCHANGED <<enrollments, modules, frames, received, grading>>

NextQuiz == \E op \in Ops : \E q \in QuizRequests(op) : ServeQuiz(op, q[1], q[2])

SpecQuiz == InitQuiz /\ [][NextQuiz]_vars

(***************************************************************************)
(* Vocabulary of the properties.                                           *)
(***************************************************************************)
\* the positions of the progress documents of a learner for a module
Records(coll, user_id, module_id) ==
    {i \in 1..Len(coll) :
        coll[i].user_id = user_id /\ coll[i].module_id = module_id}

\* is_unlocked and is_completed of (learner, module): false without a document
Unlocked(coll, user_id, module_id) ==
    \E i \in Records(coll, user_id, module_id) : coll[i].is_unlocked

Completed(coll, user_id, module_id) ==
    \E i \in Records(coll, user_id, module_id) : coll[i].is_completed

\* the ids of the modules of a course with a given module_number
Numbered(mods, course_id, n) ==
    {mods[k].id : k \in {k \in 1..Len(mods) :
        mods[k].course_id = course_id /\ mods[k].module_number = n}}

\* the module_number of a module id of the course
NumberOf(mods, module_id) ==
    mods[CHOOSE k \in 1..Len(mods) : mods[k].id = module_id].module_number

\* what the list operation reports as the progress of a module
Listed(db, user_id, course_id, module_id) ==
    LET body == Handle(db, "list", user_id, course_id, "", <<>>).f.response.body
    IN body[CHOOSE k \in 1..Len(body) : body[k].id = module_id].progress

\* the status a detail request would get
DetailStatus(db, user_id, course_id, module_id) ==
    Handle(db, "detail", user_id, course_id, module_id, <<>>).f.response.status

\* an outcome of submit_quiz that was graded
Graded(r) == r.f.response.status = 200

(* C1: handling requests one at a time, a module numbered N > 1 is unlocked
   for a learner (locked when there is no progress document) only if the
   learner has a document with is_completed = true for module N-1 of the
   same course. *)
C1_UnlockGating ==
    \A i \in 1..Len(module_progress), k \in 1..Len(modules) :
        ( /\ module_progress[i].module_id = modules[k].id
          /\ modules[k].module_number > 1
          /\ module_progress[i].is_unlocked )
        => \E prev \in Numbered(modules, modules[k].course_id,
                                modules[k].module_number - 1) :
                Completed(module_progress, module_progress[i].user_id, prev)

\* module 2 is unlocked by the completion of module 1, while the document a
\* detail request left for module 3 is locked
C1_Witness ==
    /\ Unlocked(module_progress, "u1", ModuleIdPool[2])
    /\ Completed(module_progress, "u1", ModuleIdPool[1])
    /\ Records(module_progress, "u1", ModuleIdPool[3]) # {}
    /\ ~Unlocked(module_progress, "u1", ModuleIdPool[3])


\* a submission that is graded as passed and completes its module
Completing(db, r, user_id, module_id) ==
    /\ Graded(r)
    /\ r.f.response.body.passed
    /\ ~Completed(db.module_progress, user_id, module_id)

\* is_unlocked is the same before and after for every learner and every
\* module but (user_id, module_id)
UnlockedElsewhereSame(before, after, user_id, module_id) ==
    \A u \in Users, m \in ModuleIds :
        (u # user_id \/ m # module_id)
        => (Unlocked(after, u, m) <=> Unlocked(before, u, m))

(* C2: a submission on module N that passes and completes it leaves module
   N+1 of the course unlocked and the is_unlocked of every other module as
   it was; the list that follows reports N+1 unlocked and a detail request
   on module N+2 gets 403. *)
C2_PassUnlocksExactlyNext ==
    \A u \in Users, m \in ModuleIds \ {UnknownModuleId} :
      \A answers \in AnswerInputs(m) :
        \A r \in {Handle(Db, "submit", u, CourseId, m, answers)} :
          Completing(Db, r, u, m)
          => /\ \A next \in Numbered(modules, CourseId, NumberOf(modules, m) + 1) :
                  /\ Unlocked(r.db.module_progress, u, next)
                  /\ Listed(r.db, u, CourseId, next).is_unlocked
                  /\ UnlockedElsewhereSame(module_progress,
                                           r.db.module_progress, u, next)
             /\ \A after \in Numbered(modules, CourseId,
                                       NumberOf(modules, m) + 2) :
                  DetailStatus(r.db, u, CourseId, after) = 403

\* module 1 has just been completed by the learner's first passing
\* submission: module 2 is unlocked and module 3 is not
C2_Witness ==
    /\ \E i \in Records(module_progress, "u1", ModuleIdPool[1]) :
          /\ module_progress[i].is_completed
          /\ module_progress[i].completed_at = clock
          /\ module_progress[i].last_attempt_at = clock
    /\ Unlocked(module_progress, "u1", ModuleIdPool[2])
    /\ ~Completed(module_progress, "u1", ModuleIdPool[2])
    /\ ~Unlocked(module_progress, "u1", ModuleIdPool[3])


(* C3: the pass decision is inclusive and exact: for every number of
   questions and every number of correct answers, passed is true exactly
   when correct_count / total_questions >= 8/10 as fractions; 4 of 5 passes
   and 1 of 5 fails. *)
C3_PassDecisionExact ==
    grading.graded
    => (grading.passed <=>
            grading.correct_count * PassingScoreDen
                >= PassingScoreNum * grading.total_questions)

\* 4 correct of 5 has been graded as passed
C3_Witness ==
    /\ grading.graded
    /\ grading.total_questions = 5
    /\ grading.correct_count = 4
    /\ grading.passed


\* a submission that is graded below the passing score
Failing(r) == Graded(r) /\ ~r.f.response.body.passed

(* C4: a submission graded below the passing score creates no progress
   document and leaves the documents of every other module as they were;
   is_completed and completed_at of the submitted module keep their values,
   the next module's is_unlocked keeps its value, and when the next module
   was not unlocked a detail request on it afterwards gets 403. *)
C4_FailChangesNothingElse ==
    \A u \in Users, m \in ModuleIds \ {UnknownModuleId} :
      \A answers \in AnswerInputs(m) :
        \A r \in {Handle(Db, "submit", u, CourseId, m, answers)} :
          Failing(r)
          => /\ Len(r.db.module_progress) = Len(module_progress)
             /\ \A i \in 1..Len(module_progress) :
                  IF i \in Records(module_progress, u, m)
                  THEN /\ r.db.module_progress[i].is_completed
                            = module_progress[i].is_completed
                       /\ r.db.module_progress[i].completed_at
                            = module_progress[i].completed_at
                  ELSE r.db.module_progress[i] = module_progress[i]
             /\ \A next \in Numbered(modules, CourseId, NumberOf(modules, m) + 1) :
                  /\ Unlocked(r.db.module_progress, u, next)
                        <=> Unlocked(module_progress, u, next)
                  /\ ~Unlocked(module_progress, u, next)
                        => DetailStatus(r.db, u, CourseId, next) = 403

\* the learner's last submission on module 1 failed with a positive score:
\* the module is not completed and module 2 is not unlocked
C4_Witness ==
    /\ \E i \in Records(module_progress, "u1", ModuleIdPool[1]) :
          /\ module_progress[i].quiz_attempts >= 1
          /\ module_progress[i].last_attempt_at = clock
          /\ FloatGreater(module_progress[i].best_score, FloatZero)
          /\ ~module_progress[i].is_completed
          /\ module_progress[i].completed_at = 0
    /\ ~Unlocked(module_progress, "u1", ModuleIdPool[2])


\* every progress document is still there after the step, for the same
\* learner and module, with no flag gone from true to false
FlagsKept ==
    \A i \in 1..Len(module_progress) :
        /\ i <= Len(module_progress')
        /\ module_progress'[i].user_id = module_progress[i].user_id
        /\ module_progress'[i].module_id = module_progress[i].module_id
        /\ module_progress[i].is_unlocked => module_progress'[i].is_unlocked
        /\ module_progress[i].is_completed => module_progress'[i].is_completed

(* C5: handling requests one at a time, no step takes is_unlocked or
   is_completed of a (learner, module) progress document from true to
   false. *)
C5_FlagsMonotonic == [][FlagsKept]_vars

\* a completed and unlocked module has taken a submission after the one
\* that completed it
C5_Witness ==
    \E i \in 1..Len(module_progress) :
        /\ module_progress[i].is_completed
        /\ module_progress[i].is_unlocked
        /\ module_progress[i].quiz_attempts >= 2
        /\ module_progress[i].completed_at > 0
        /\ module_progress[i].last_attempt_at > module_progress[i].completed_at


\* both handlers have returned a graded submission on module_id, and these
\* are the only two submissions graded so far
BothGraded(module_id) ==
    /\ \A p \in Procs :
          /\ frames[p].pc = "done"
          /\ frames[p].op = "submit"
          /\ frames[p].module_id = module_id
          /\ frames[p].response.status = 200
    /\ clock = 2

(* C6: when two submissions of the learner on the same unlocked module are
   both graded, however their database calls interleave, quiz_attempts of
   the document ends 2 higher than before (at 2, no submission having been
   graded before them). *)
C6_NoLostAttempt ==
    \A m \in ModuleIds :
        BothGraded(m)
        => \A i \in Records(module_progress, ConcUser, m) :
                module_progress[i].quiz_attempts = 2

\* the larger of two scores
MaxScore(a, b) == IF FloatLess(a, b) THEN b ELSE a

\* no document's best_score is lower after the step
BestScoreKept ==
    \A i \in 1..Len(module_progress) :
        /\ i <= Len(module_progress')
        /\ FloatGE(module_progress'[i].best_score, module_progress[i].best_score)

\* after two graded submissions, the first ever graded, best_score is the
\* larger of the two scores
BestScoreIsMax ==
    \A m \in ModuleIds :
        BothGraded(m)
        => \A i \in Records(module_progress, ConcUser, m) :
                module_progress[i].best_score
                    = MaxScore(frames[1].response.body.score,
                               frames[2].response.body.score)

(* C7: with submissions of the learner on the same module interleaved,
   best_score of the document decreases at no step, and after two graded
   submissions it is the maximum of the earlier best_score and the two
   scores. *)
C7_BestScoreMonotonic == [][BestScoreKept /\ BestScoreIsMax']_vars

\* no document of a module numbered N > 1 is unlocked while the learner has
\* no completed document for module N-1
NoUnlockAheadOfCompletion ==
    \A i \in 1..Len(module_progress) :
        (module_progress[i].is_unlocked
            /\ NumberOf(modules, module_progress[i].module_id) > 1)
        => \E prev \in Numbered(modules, module_progress[i].course_id,
                NumberOf(modules, module_progress[i].module_id) - 1) :
                Completed(module_progress, module_progress[i].user_id, prev)

\* a completed_at that is set is not written again
CompletedAtOnce ==
    \A i \in 1..Len(module_progress) :
        (i <= Len(module_progress') /\ module_progress[i].completed_at # 0)
        => module_progress'[i].completed_at = module_progress[i].completed_at

(* C8: a passing submission takes effect as one unit: at no point between
   the database calls of the requests in flight is module N+1 unlocked
   while module N is not completed, and two interleaved passing submissions
   on a module set its completed_at once. *)
C8_PassIsAtomic == [][NoUnlockAheadOfCompletion' /\ CompletedAtOnce]_vars

(* C9: whatever the interleaving of the learner's requests in flight, the
   store holds no two progress documents for the same (learner, module),
   and so never a locked and an unlocked one for the same pair. *)
C9_OneRecordConcurrent ==
    \A i, j \in 1..Len(module_progress) :
        ( /\ module_progress[i].user_id = module_progress[j].user_id
          /\ module_progress[i].module_id = module_progress[j].module_id )
        => i = j

(* C10: handling requests one at a time, there is at most one progress
   document per (learner, module). *)
C10_OneRecordSequential ==
    \A u \in Users, m \in ModuleIds :
        Cardinality(Records(module_progress, u, m)) <= 1

\* a passing submission has unlocked the document that a detail request had
\* created locked for the next module, and a detail request has since
\* created the document of the module after it
C10_Witness ==
    /\ Len(module_progress) = 3
    /\ module_progress[1].module_id = ModuleIdPool[1]
    /\ module_progress[1].is_completed
    /\ module_progress[2].module_id = ModuleIdPool[2]
    /\ module_progress[2].is_unlocked
    /\ module_progress[3].module_id = ModuleIdPool[3]


\* the learner holds an enrollment of the course with payment_status paid
Paid(user_id, course_id) ==
    \E i \in 1..Len(enrollments) :
        /\ enrollments[i].user_id = user_id
        /\ enrollments[i].course_id = course_id
        /\ enrollments[i].payment_status = "paid"

\* the response is the 403 of the enrollment check and nothing was written
Refused(r, db) ==
    /\ r.f.response = [status |-> 403, body |-> "Not enrolled in this course"]
    /\ r.db = db

(* C11: for a learner without a paid enrollment of the course (none, only
   pending or only expired) each of the five operations answers 403 "Not
   enrolled", also for a module id that does not exist, and leaves the
   store as it was; so no progress document belongs to a learner without a
   paid enrollment. *)
C11_EnrollmentGate ==
    /\ \A u \in Learners, c \in Courses :
          ~Paid(u, c)
          => \A op \in Ops : \A q \in Requests(op) :
                Refused(Handle(Db, op, u, c, q[1], q[2]), Db)
    /\ \A i \in 1..Len(module_progress) :
          Paid(module_progress[i].user_id, module_progress[i].course_id)

\* the paid learner has progress in the store while the others have a
\* pending, an expired and no enrollment
C11_Witness ==
    /\ Completed(module_progress, "u1", ModuleIdPool[1])
    /\ Len(module_progress) >= 2
    /\ \E i \in 1..Len(enrollments) :
          /\ enrollments[i].user_id = "u2"
          /\ enrollments[i].payment_status = "pending"
    /\ \E i \in 1..Len(enrollments) :
          /\ enrollments[i].user_id = "u3"
          /\ enrollments[i].payment_status = "expired"
    /\ \A i \in 1..Len(enrollments) : enrollments[i].user_id # "u4"
    /\ \A u \in {"u2", "u3", "u4"} :
          DetailStatus(Db, u, CourseId, ModuleIdPool[1]) = 403


\* the number of quiz questions of a module
QuestionCount(module_id) ==
    Len(modules[CHOOSE k \in 1..Len(modules) : modules[k].id = module_id]
            .assessment.quiz_questions)

\* the answer lists submitted on a module: those of AnswerInputs, no
\* answer at all, and the right answers of the first and the second module
\* (of 5 and of 6 questions)
SubmittedTo(module_id) ==
    AnswerInputs(module_id) \cup {<<>>, AnswerKeys[1], AnswerKeys[2]}

(* C12: a submission on an unlocked module with fewer or more answers than
   the module has questions answers 400 "Invalid number of answers": no
   QuizResult is returned and nothing is written, neither to the module's
   document (quiz_attempts, best_score, last_attempt_at, is_completed,
   completed_at) nor to any other. *)
C12_WrongLengthRejected ==
    \A u \in Users, m \in ModuleIds \ {UnknownModuleId} :
      \A answers \in SubmittedTo(m) :
        (Unlocked(module_progress, u, m) /\ Len(answers) # QuestionCount(m))
        => \A r \in {Handle(Db, "submit", u, CourseId, m, answers)} :
              /\ r.f.response =
                    [status |-> 400, body |-> "Invalid number of answers"]
              /\ r.db = Db

\* module 1 is unlocked and has been attempted, and a submission with one
\* answer too few and one with one answer too many are refused
C12_Witness ==
    /\ \E i \in Records(module_progress, "u1", ModuleIdPool[1]) :
          /\ module_progress[i].is_unlocked
          /\ module_progress[i].quiz_attempts >= 1
    /\ \A answers \in {SubSeq(AnswerKeys[1], 1, Len(AnswerKeys[1]) - 1),
                        AnswerKeys[1] \o <<0>>} :
          Handle(Db, "submit", "u1", CourseId, ModuleIdPool[1], answers)
            .f.response.status = 400


\* the response is the 403 of a locked module and nothing was written
RefusedLocked(r, db) ==
    /\ r.f.response = [status |-> 403, body |-> "Module is locked"]
    /\ r.db = db

(* C13: when an enrolled learner has no progress document for a module
   (module 1 included) or the document has is_unlocked false, a submission
   answers 403 "Module is locked" whatever the answers, and no document is
   created or changed. *)
C13_SubmitNeedsUnlocked ==
    \A u \in Users, m \in ModuleIds \ {UnknownModuleId} :
        (Paid(u, CourseId) /\ ~Unlocked(module_progress, u, m))
        => \A answers \in SubmittedTo(m) :
              RefusedLocked(Handle(Db, "submit", u, CourseId, m, answers), Db)

\* module 1 has no document and module 2 has a locked one: neither takes
\* a submission
C13_Witness ==
    /\ Records(module_progress, "u1", ModuleIdPool[1]) = {}
    /\ \E i \in Records(module_progress, "u1", ModuleIdPool[2]) :
          ~module_progress[i].is_unlocked
    /\ \A n \in 1..2 :
          Handle(Db, "submit", "u1", CourseId, ModuleIdPool[n], AnswerKeys[n])
            .f.response.status = 403

(* C14: a quiz fetch by an enrolled learner answers 403 "Module is locked"
   when the learner has no progress document for the module (module 1
   included) or a locked one, and 200 when the document is unlocked; in
   neither case is a document created or changed. *)
C14_QuizFetchFailsClosed ==
    \A u \in Users, m \in ModuleIds \ {UnknownModuleId} :
        Paid(u, CourseId)
        => \A r \in {Handle(Db, "quiz", u, CourseId, m, <<>>)} :
              IF Unlocked(module_progress, u, m)
              THEN r.f.response.status = 200 /\ r.db = Db
              ELSE RefusedLocked(r, Db)

\* after a detail request on module 1 the quiz of module 1 is served, that
\* of module 2, which has no document, is not
C14_Witness ==
    /\ \E i \in Records(module_progress, "u1", ModuleIdPool[1]) :
          module_progress[i].is_unlocked /\ module_progress[i].quiz_attempts = 0
    /\ Records(module_progress, "u1", ModuleIdPool[2]) = {}
    /\ Handle(Db, "quiz", "u1", CourseId, ModuleIdPool[1], <<>>)
            .f.response.status = 200
    /\ Handle(Db, "quiz", "u1", CourseId, ModuleIdPool[2], <<>>)
            .f.response.status = 403


\* the view of a module nobody has touched
DefaultView(is_unlocked) ==
    [is_unlocked |-> is_unlocked, is_completed |-> FALSE, quiz_attempts |-> 0,
     best_score |-> FloatZero]

(* C15: for an enrolled learner without any progress document the list
   reports every module of the course, module 1 unlocked and the others
   locked, all not completed with 0 attempts and best_score 0; and a detail
   request on module 1 answers 200 and stores one document for it with
   is_unlocked true, no quiz having been submitted. *)
C15_InitialView ==
    \A u \in Users :
        ( /\ Paid(u, CourseId)
          /\ \A i \in 1..Len(module_progress) : module_progress[i].user_id # u )
        => /\ \A r \in {Handle(Db, "list", u, CourseId, "", <<>>)} :
                /\ r.f.response.status = 200
                /\ Len(r.f.response.body) = Len(modules)
                /\ \A k \in 1..Len(modules) :
                      /\ r.f.response.body[k].module_number = k
                      /\ r.f.response.body[k].progress = DefaultView(k = 1)
           /\ \A m \in Numbered(modules, CourseId, 1) :
                \A r \in {Handle(Db, "detail", u, CourseId, m, <<>>)} :
                    /\ r.f.response.status = 200
                    /\ r.f.response.body.progress.is_unlocked
                    /\ r.db.module_progress =
                          Append(module_progress,
                                 ModuleProgress(u, CourseId, m, TRUE))
                    /\ r.db.clock = clock

\* the first detail request on module 1 has stored its document; no quiz
\* has been submitted
C15_Witness ==
    /\ module_progress = <<ModuleProgress("u1", CourseId, ModuleIdPool[1], TRUE)>>
    /\ clock = 0


\* module 1, or the learner has a completed document for the module before
Eligible(coll, user_id, module_id) ==
    \/ NumberOf(modules, module_id) = 1
    \/ \E prev \in Numbered(modules, CourseId, NumberOf(modules, module_id) - 1) :
            Completed(coll, user_id, prev)

(* C16: a detail request of an enrolled learner on a module without a
   progress document inserts exactly one document, unlocked exactly when
   the module is module 1 or the learner has a completed document for the
   module before it; when it is locked the request answers 403 with the
   detail message only and the locked document stays stored.  On a module
   that has a document the request inserts and changes nothing. *)
C16_DetailPersistsLazily ==
    \A u \in Users, m \in ModuleIds \ {UnknownModuleId} :
        Paid(u, CourseId)
        => \A r \in {Handle(Db, "detail", u, CourseId, m, <<>>)} :
              IF Records(module_progress, u, m) = {}
              THEN /\ r.db.module_progress =
                        Append(module_progress,
                               ModuleProgress(u, CourseId, m,
                                   Eligible(module_progress, u, m)))
                   /\ r.db.clock = clock
                   /\ IF Eligible(module_progress, u, m)
                      THEN r.f.response.status = 200
                      ELSE r.f.response =
                            [status |-> 403,
                             body |-> "Module is locked. Complete previous module first."]
              ELSE r.db = Db

\* the only document is the locked one that a refused detail request on
\* module 2 left, and a second request on module 2 is refused again
C16_Witness ==
    /\ module_progress = <<ModuleProgress("u1", CourseId, ModuleIdPool[2], FALSE)>>
    /\ DetailStatus(Db, "u1", CourseId, ModuleIdPool[2]) = 403


(* C17: list, quiz fetch and aggregate progress insert and modify no
   progress document, whether they succeed or fail; the default view the
   list gives for a module without a document is not stored, so a list
   leaves the store as it found it however often it is repeated. *)
C17_ReadOnlyOperations ==
    \A u \in Users, op \in {"list", "quiz", "progress"} :
        \A q \in Requests(op) :
            Handle(Db, op, u, CourseId, q[1], q[2]).db = Db

\* module 1 is completed and module 3 has no document: the list shows
\* module 3 by its default view
C17_Witness ==
    /\ Completed(module_progress, "u1", ModuleIdPool[1])
    /\ Records(module_progress, "u1", ModuleIdPool[3]) = {}
    /\ Listed(Db, "u1", CourseId, ModuleIdPool[3]) = DefaultView(FALSE)
    /\ Listed(Db, "u1", CourseId, ModuleIdPool[1]).is_completed


\* the submission of SpecReview has returned
Reviewed == frames[1].op = "submit" /\ frames[1].pc = "done"

\* the positions at which an answer list agrees with the stored indices
RightPositions(module_id, answers) ==
    {i \in 1..Len(KeyOf(module_id)) : answers[i] = KeyOf(module_id)[i]}

(* C18: for every answer list of the right length the result has
   correct_answers equal to the number of positions at which the answer is
   the stored correct index, total_questions equal to the number of
   questions, and a review with one entry per question, in question order,
   whose is_correct is that comparison at its position. *)
C18_GradingPositional ==
    Reviewed
    => LET m == frames[1].module_id
           answers == frames[1].answers
           result == frames[1].response.body
           n == NumberOf(modules, m)
       IN /\ frames[1].response.status = 200
          /\ result.correct_answers = Cardinality(RightPositions(m, answers))
          /\ result.total_questions = Len(AnswerKeys[n])
          /\ Len(result.questions_review) = Len(AnswerKeys[n])
          /\ \A i \in 1..Len(AnswerKeys[n]) :
                /\ result.questions_review[i].question_number = i
                /\ result.questions_review[i].question
                        = modules[n].assessment.quiz_questions[i].question
                /\ result.questions_review[i].is_correct
                        <=> i \in RightPositions(m, answers)

\* a submission on module 1 right at the positions 2 and 4 only has been
\* graded with 2 correct answers
C18_Witness ==
    /\ Reviewed
    /\ frames[1].module_id = ModuleIdPool[1]
    /\ RightPositions(ModuleIdPool[1], frames[1].answers) = {2, 4}
    /\ frames[1].response.body.correct_answers = 2


\* an index that names no option of the question
OutOfRange(user_answer) == user_answer < 0 \/ user_answer >= Len(Options)

(* C19: an answer index that is negative or not below the number of
   options is never counted as correct and is shown in the review as
   "No answer", while an index in range is shown as the option it names;
   the submission is graded all the same: it answers 200 and is counted
   as an attempt. *)
C19_OutOfRangeIsNoAnswer ==
    Reviewed
    => LET m == frames[1].module_id
           answers == frames[1].answers
           result == frames[1].response.body
       IN /\ frames[1].response.status = 200
          /\ \A i \in 1..Len(answers) :
                IF OutOfRange(answers[i])
                THEN /\ ~result.questions_review[i].is_correct
                     /\ result.questions_review[i].user_answer = "No answer"
                ELSE result.questions_review[i].user_answer
                        = Options[answers[i] + 1]
          /\ result.correct_answers
                <= Cardinality({i \in 1..Len(answers) : ~OutOfRange(answers[i])})
          /\ \A i \in Records(module_progress, "u1", m) :
                /\ module_progress[i].quiz_attempts = 1
                /\ module_progress[i].last_attempt_at = clock

\* a submission on module 1 with the index -1 at the first question, an
\* index past the last option at the last and the right answers between
\* them has been graded: 3 correct, one attempt
C19_Witness ==
    /\ Reviewed
    /\ frames[1].module_id = ModuleIdPool[1]
    /\ frames[1].answers = [AnswerKeys[1] EXCEPT ![1] = 0 - 1,
                                                 ![5] = Len(Options)]
    /\ frames[1].response.body.correct_answers = 3
    /\ frames[1].response.body.questions_review[1].user_answer = "No answer"
    /\ module_progress[1].quiz_attempts = 1

\* the store SpecReview starts from on module 3 is one Spec reaches
StoreAtReached == module_progress = StoreAt("u1", 3) /\ clock = 2


\* best_score of document i after request r, given that of before: the
\* larger of the stored one and the score for the document a graded
\* submission is about, the stored one for every other document
BestScoreAfter(before, i, r, op, user_id, module_id) ==
    IF op = "submit" /\ Graded(r) /\ i \in Records(before, user_id, module_id)
    THEN MaxScore(before[i].best_score, r.f.response.body.score)
    ELSE before[i].best_score

(* C20: handling requests one at a time, a graded submission leaves
   best_score of its (learner, module) document at the larger of the
   stored value and the new score, no other request and no other document
   is touched, and a new document starts at 0: so best_score is the
   maximum score of the graded submissions so far (0 without any) and
   never decreases. *)
C20_BestScoreIsMaximum ==
    \A u \in Users, op \in Ops :
      \A q \in Requests(op) :
        \A r \in {Handle(Db, op, u, CourseId, q[1], q[2])} :
            /\ Len(r.db.module_progress) >= Len(module_progress)
            /\ \A i \in 1..Len(r.db.module_progress) :
                  r.db.module_progress[i].best_score =
                    IF i <= Len(module_progress)
                    THEN BestScoreAfter(module_progress, i, r, op, u, q[1])
                    ELSE FloatZero

\* module 1 was passed with 4 of 5 and has taken a later submission that
\* did not beat that score
C20_Witness ==
    \E i \in Records(module_progress, "u1", ModuleIdPool[1]) :
        /\ module_progress[i].best_score = FloatOfRatio(4, 5)
        /\ module_progress[i].quiz_attempts >= 2
        /\ module_progress[i].completed_at = 1
        /\ module_progress[i].last_attempt_at > 1


RECURSIVE TotalAttempts(_)
\* the sum of quiz_attempts over the documents of a collection
TotalAttempts(coll) ==
    IF coll = <<>> THEN 0
    ELSE Head(coll).quiz_attempts + TotalAttempts(Tail(coll))

\* quiz_attempts of document i after request r on (user_id, module_id):
\* one more for the document a graded submission is about, the stored
\* value for every other document
AttemptsAfter(before, i, r, user_id, module_id) ==
    IF Graded(r) /\ i \in Records(before, user_id, module_id)
    THEN before[i].quiz_attempts + 1
    ELSE before[i].quiz_attempts

\* what a submission and a quiz fetch on the present store do to
\* quiz_attempts
AttemptsCountGraded ==
    /\ \A u \in Users :
         \A q \in Requests("submit") :
           \A r \in {Handle(Db, "submit", u, CourseId, q[1], q[2])} :
             IF Graded(r)
             THEN /\ Records(module_progress, u, q[1]) # {}
                  /\ Len(r.db.module_progress) >= Len(module_progress)
                  /\ \A i \in 1..Len(r.db.module_progress) :
                        r.db.module_progress[i].quiz_attempts =
                          IF i <= Len(module_progress)
                          THEN AttemptsAfter(module_progress, i, r, u, q[1])
                          ELSE 0
             ELSE /\ r.f.response.status \in {400, 403, 404}
                  /\ r.db = Db
    /\ TotalAttempts(module_progress) = clock
    /\ \A u \in Users, m \in ModuleIds :
         \A r \in {Handle(Db, "quiz", u, CourseId, m, <<>>)} :
           r.f.response.status = 200
           => \A i \in Records(module_progress, u, m) :
                 r.f.response.body.attempts = module_progress[i].quiz_attempts

(* C21: handling requests one at a time, a graded submission (passed or
   failed, on a completed module or not) adds exactly 1 to quiz_attempts of
   the document of its learner and module and leaves quiz_attempts of every
   other document as it was, a document it inserts starting at 0; a
   submission that is refused (no paid enrollment, unknown module, locked,
   wrong number of answers) leaves the store as it was.  The clock advances
   once per graded submission, so the attempts in the store add up to the
   number of graded submissions, and a quiz fetch returns the stored
   quiz_attempts of its document. *)
C21_AttemptsCountGraded == []AttemptsCountGraded

\* module 1 was failed, then passed, then submitted once more: three graded
\* submissions and quiz_attempts 3, which the quiz fetch returns
C21_Witness ==
    /\ clock = 3
    /\ \E i \in Records(module_progress, "u1", ModuleIdPool[1]) :
          /\ module_progress[i].quiz_attempts = 3
          /\ module_progress[i].completed_at = 2
          /\ module_progress[i].last_attempt_at = 3
    /\ Handle(Db, "quiz", "u1", CourseId, ModuleIdPool[1], <<>>)
            .f.response.body.attempts = 3


\* the calls of submit_quiz that write the next module's document
CascadeWrites == {"unlock_update", "unlock_insert"}

\* document i takes a graded submission in this step
Attempted(i) ==
    /\ i <= Len(module_progress')
    /\ module_progress'[i].quiz_attempts > module_progress[i].quiz_attempts

\* a step in which a document gets its completed_at gets the time of that
\* step together with is_completed; a step in which a completed document
\* takes a submission keeps its is_completed and completed_at, inserts no
\* document and changes no other document
CompletedOnce ==
    \A i \in 1..Len(module_progress) :
        /\ (Attempted(i) /\ ~module_progress[i].is_completed
                /\ module_progress'[i].is_completed)
           => /\ module_progress[i].completed_at = 0
              /\ module_progress'[i].completed_at = clock'
        /\ (Attempted(i) /\ module_progress[i].is_completed)
           => /\ module_progress'[i].is_completed
              /\ module_progress'[i].completed_at = module_progress[i].completed_at
              /\ Len(module_progress') = Len(module_progress)
              /\ \A j \in 1..Len(module_progress) :
                    j # i => module_progress'[j] = module_progress[j]

\* a submission on a completed module makes none of the calls that write
\* the next module's document, whatever its answers
NoCascadeOnCompleted ==
    \A u \in Users, m \in ModuleIds :
        Completed(module_progress, u, m)
        => \A answers \in AnswerInputs(m) :
              Awaited(Db, StartFrame("submit", u, CourseId, m, answers))
                \cap CascadeWrites = {}

\* a document has a completed_at exactly when it is completed, and then one
\* that lies between the first and the latest submission on it
CompletedAtSet ==
    \A i \in 1..Len(module_progress) :
        IF module_progress[i].is_completed
        THEN /\ module_progress[i].completed_at >= 1
             /\ module_progress[i].completed_at
                    <= module_progress[i].last_attempt_at
        ELSE module_progress[i].completed_at = 0

(* C22: handling requests one at a time, completed_at of a progress document
   is set in the step of the first passing submission on its module, to the
   time of that submission, and no later submission on the module, passing
   or failing, changes it: such a submission leaves is_completed true,
   inserts no document, changes no other document and makes neither of the
   calls that write the next module's document. *)
C22_CompletionHappensOnce ==
    /\ []CompletedAtSet
    /\ []NoCascadeOnCompleted
    /\ [][CompletedOnce]_vars

\* module 1 was completed by the first submission and has since taken a
\* passing and a failing one: three attempts, completed_at still 1
C22_Witness ==
    /\ clock = 3
    /\ \E i \in Records(module_progress, "u1", ModuleIdPool[1]) :
          /\ module_progress[i].is_completed
          /\ module_progress[i].completed_at = 1
          /\ module_progress[i].quiz_attempts = 3
          /\ module_progress[i].last_attempt_at = 3
    /\ Unlocked(module_progress, "u1", ModuleIdPool[2])


\* the result of a graded submission has a score at or above the passing
\* score, as fractions
MeetsThreshold(result) ==
    result.correct_answers * PassingScoreDen
        >= PassingScoreNum * result.total_questions

\* which request on the present store leaves a document completed that
\* was not
CompletedOnlyByPassingSubmit ==
    \A u \in Users, op \in Ops :
      \A q \in Requests(op) :
        \A r \in {Handle(Db, op, u, CourseId, q[1], q[2])} :
          \A i \in 1..Len(r.db.module_progress) :
            (r.db.module_progress[i].is_completed
                /\ (i <= Len(module_progress)
                        => ~module_progress[i].is_completed))
            => /\ i <= Len(module_progress)
               /\ op = "submit"
               /\ module_progress[i].user_id = u
               /\ module_progress[i].module_id = q[1]
               /\ Graded(r)
               /\ r.f.response.body.passed
               /\ MeetsThreshold(r.f.response.body)

(* C23: with two enrolled learners and requests handled one at a time, a
   request leaves a progress document completed that was not completed
   before only if it is a graded submission by the document's learner on
   the document's module whose score is at or above the passing score; no
   list, detail, quiz fetch or aggregate progress, no failing or refused
   submission and no submission of another learner or on another module
   does, and no document is completed when it is inserted. *)
C23_CompletedOnlyByPassingSubmit == []CompletedOnlyByPassingSubmit

\* u1 has completed module 1 by a passing submission while the document of
\* u2 for module 1, in the store before it, is still not completed
C23_Witness ==
    /\ Completed(module_progress, "u1", ModuleIdPool[1])
    /\ Records(module_progress, "u2", ModuleIdPool[1]) = {1}
    /\ ~Completed(module_progress, "u2", ModuleIdPool[1])
    /\ Unlocked(module_progress, "u1", ModuleIdPool[2])


\* the modules with other answer keys: every correct_answer moved on by k
\* options and every explanation rewritten
Rekeyed(mods, k) ==
    [n \in 1..Len(mods) |->
        [mods[n] EXCEPT !.assessment.quiz_questions =
            [i \in 1..Len(@) |->
                [@[i] EXCEPT
                    !.correct_answer = (@ + k) % Len(Options),
                    !.explanation = @ + 50 * k]]]]

\* what a quiz fetch on the present store returns, and that it does not
\* depend on the stored answer key
QuizHidesAnswerKey ==
    \A u \in Users, m \in ModuleIds :
      \A r \in {Handle(Db, "quiz", u, CourseId, m, <<>>)} :
        /\ r.f.response.status = 200
           => /\ DOMAIN r.f.response.body =
                    {"module_id", "module_title", "questions",
                     "passing_score", "attempts", "best_score"}
              /\ Len(r.f.response.body.questions) = QuestionCount(m)
              /\ \A i \in 1..Len(r.f.response.body.questions) :
                    DOMAIN r.f.response.body.questions[i]
                        = {"id", "question", "options"}
        /\ \A k \in 1..(Len(Options) - 1) :
              Handle([Db EXCEPT !.modules = Rekeyed(modules, k)],
                     "quiz", u, CourseId, m, <<>>).f.response
                = r.f.response

(* C24: a quiz fetch that succeeds returns module_id, module_title, the
   questions, passing_score, attempts and best_score; each returned question
   has the fields id, question and options and no other, so neither
   correct_answer nor explanation; and the whole response, refusals
   included, is the same when the stored correct_answer and explanation of
   every question are replaced by other values, for the same store of
   progress documents. *)
C24_QuizHidesAnswerKey == []QuizHidesAnswerKey

\* the quiz of module 2 is fetched with success after an attempt on it
C24_Witness ==
    /\ Unlocked(module_progress, "u1", ModuleIdPool[2])
    /\ \E i \in Records(module_progress, "u1", ModuleIdPool[2]) :
          module_progress[i].quiz_attempts >= 1
    /\ \E r \in {Handle(Db, "quiz", "u1", CourseId, ModuleIdPool[2], <<>>)} :
          /\ r.f.response.status = 200
          /\ r.f.response.body.attempts >= 1
          /\ Len(r.f.response.body.questions) = 6


\* the positions of the documents of a learner for the course that are
\* unlocked and not completed
InProgress(coll, user_id, course_id) ==
    {i \in 1..Len(coll) :
        /\ coll[i].user_id = user_id
        /\ coll[i].course_id = course_id
        /\ coll[i].is_unlocked
        /\ ~coll[i].is_completed}

\* the number of completed documents of a learner for the course
CompletedCount(coll, user_id, course_id) ==
    Cardinality({i \in 1..Len(coll) :
        /\ coll[i].user_id = user_id
        /\ coll[i].course_id = course_id
        /\ coll[i].is_completed})

(* C25: handling requests one at a time on the seeded course (modules
   numbered 1..total without a gap), aggregate progress of an enrolled
   learner returns as current_module the module_number of the module whose
   document is unlocked and not completed when there is such a document
   (there is never more than one such module); without one it returns
   completed + 1 when completed < total and total otherwise; and the
   returned current_module lies in 1..total_modules. *)
C25_CurrentModule ==
    \A u \in Users :
      Paid(u, CourseId)
      => \A r \in {Handle(Db, "progress", u, CourseId, "", <<>>)} :
           \E body \in {r.f.response.body} :
             \E done \in {CompletedCount(module_progress, u, CourseId)} :
               /\ r.f.response.status = 200
               /\ body.total_modules = Len(modules)
               /\ body.completed_modules = done
               /\ \A i \in InProgress(module_progress, u, CourseId) :
                     body.current_module
                        = NumberOf(modules, module_progress[i].module_id)
               /\ InProgress(module_progress, u, CourseId) = {}
                  => body.current_module =
                        IF done < Len(modules) THEN done + 1 ELSE Len(modules)
               /\ body.current_module \in 1..body.total_modules

\* every module is completed: no document is unlocked and not completed,
\* and current_module is held at the number of the last module
C25_Witness ==
    /\ CompletedCount(module_progress, "u1", CourseId) = NumModules
    /\ InProgress(module_progress, "u1", CourseId) = {}
    /\ Handle(Db, "progress", "u1", CourseId, "", <<>>)
            .f.response.body.current_module = NumModules


\* what requests on the course without modules do on the present store
EmptyCourseProgress ==
    /\ CountDocuments(modules, [course_id |-> EmptyCourseId]) = 0
    /\ \A u \in Users :
         Paid(u, EmptyCourseId)
         => /\ Handle(Db, "progress", u, EmptyCourseId, "", <<>>).f.response
                 = [status |-> 200,
                    body |-> [course_id |-> EmptyCourseId,
                              total_modules |-> 0,
                              completed_modules |-> 0,
                              current_module |-> 0,
                              overall_progress |-> FloatZero]]
            /\ \A op \in Ops : \A q \in Requests(op) :
                  Handle(Db, op, u, EmptyCourseId, q[1], q[2]).db = Db
    /\ \A i \in 1..Len(module_progress) :
         module_progress[i].course_id # EmptyCourseId

(* C26: for a course without modules, aggregate progress of a learner with
   a paid enrollment answers 200 with total_modules 0, completed_modules 0,
   current_module 0 and overall_progress 0.0, in every reachable state; no
   request on that course writes a progress document, so no document of
   the course exists. *)
C26_EmptyCourseProgress == []EmptyCourseProgress

\* the learner enrolled in both courses has completed a module of the
\* other course
C26_Witness ==
    /\ Paid("u1", EmptyCourseId)
    /\ Completed(module_progress, "u1", ModuleIdPool[1])
    /\ Handle(Db, "progress", "u1", EmptyCourseId, "", <<>>)
            .f.response.body.total_modules = 0
    /\ Handle(Db, "progress", "u1", CourseId, "", <<>>)
            .f.response.body.completed_modules >= 1


\* the ids of the modules of the course after which no module is numbered
LastModules ==
    {modules[k].id : k \in {k \in 1..Len(modules) :
        /\ modules[k].course_id = CourseId
        /\ Numbered(modules, CourseId, modules[k].module_number + 1) = {}}}

\* the percentage 100.0
Hundred == FloatOfRatio(100, 1)

(* C27: handling requests one at a time, a submission that passes and
   completes the last module of the course (no module is numbered one
   higher) leaves its document completed, inserts no document, leaves every
   other document as it was and makes neither of the calls that write a
   next module's document; and in every state in which the learner has
   completed all modules, aggregate progress returns completed_modules =
   total_modules, current_module = total_modules and overall_progress =
   100.0. *)
C27_LastModuleNoCascade ==
    \A u \in Users :
      /\ \A m \in LastModules :
           \A answers \in AnswerInputs(m) :
             \A r \in {Handle(Db, "submit", u, CourseId, m, answers)} :
               Completing(Db, r, u, m)
               => /\ Completed(r.db.module_progress, u, m)
                  /\ Len(r.db.module_progress) = Len(module_progress)
                  /\ \A i \in 1..Len(module_progress) :
                        i \notin Records(module_progress, u, m)
                        => r.db.module_progress[i] = module_progress[i]
                  /\ Awaited(Db, StartFrame("submit", u, CourseId, m, answers))
                        \cap CascadeWrites = {}
      /\ (\A n \in 1..Len(modules) :
              Completed(module_progress, u, modules[n].id))
         => \E body \in {Handle(Db, "progress", u, CourseId, "", <<>>)
                            .f.response.body} :
               /\ body.total_modules = Len(modules)
               /\ body.completed_modules = Len(modules)
               /\ body.current_module = Len(modules)
               /\ body.overall_progress = Hundred

\* the last module has just been completed, after all the others: as many
\* documents as modules, all completed, and a progress of 100.0
C27_Witness ==
    /\ Len(module_progress) = NumModules
    /\ \A n \in 1..NumModules :
          Completed(module_progress, "u1", ModuleIdPool[n])
    /\ \E i \in Records(module_progress, "u1", ModuleIdPool[NumModules]) :
          module_progress[i].completed_at = clock
    /\ Handle(Db, "progress", "u1", CourseId, "", <<>>)
            .f.response.body.overall_progress = Hundred


\* document i of the store before request r may differ after it: it is a
\* document of the requesting learner, the request is a graded submission,
\* and the document is that of the submitted module or, when the
\* submission completes the module, that of the module numbered next
MayChange(before, i, r, op, user_id, module_id) ==
    /\ op = "submit"
    /\ Graded(r)
    /\ before[i].user_id = user_id
    /\ before[i].course_id = CourseId
    /\ \/ before[i].module_id = module_id
       \/ /\ Completing([module_progress |-> before], r, user_id, module_id)
          /\ before[i].module_id
                \in Numbered(modules, CourseId,
                             NumberOf(modules, module_id) + 1)

\* a document may be inserted by request r: it is a document of the
\* requesting learner, for the module of a detail request or for the module
\* numbered next to the one a submission completes
MayInsert(before, doc, r, op, user_id, module_id) ==
    /\ doc.user_id = user_id
    /\ doc.course_id = CourseId
    /\ \/ op = "detail" /\ doc.module_id = module_id
       \/ /\ op = "submit"
          /\ Completing([module_progress |-> before], r, user_id, module_id)
          /\ doc.module_id
                \in Numbered(modules, CourseId,
                             NumberOf(modules, module_id) + 1)

\* which documents a request on the present store may change or insert
Independence ==
    \A u \in Users, op \in Ops :
      \A q \in Requests(op) :
        \A r \in {Handle(Db, op, u, CourseId, q[1], q[2])} :
          /\ Len(r.db.module_progress) >= Len(module_progress)
          /\ \A i \in 1..Len(module_progress) :
                \/ r.db.module_progress[i] = module_progress[i]
                \/ MayChange(module_progress, i, r, op, u, q[1])
          /\ \A i \in (Len(module_progress) + 1)..Len(r.db.module_progress) :
                MayInsert(module_progress, r.db.module_progress[i],
                          r, op, u, q[1])

(* C28: with two enrolled learners and requests handled one at a time, a
   request of a learner removes no progress document and leaves every
   document of the other learner as it was; a submission changes only the
   requester's document of the submitted module and, when it completes the
   module, the requester's document of the module numbered next in the
   course; every other request changes no document; and a document that is
   inserted belongs to the requester. *)
C28_Independence == []Independence

\* both learners have worked on module 1: u2 has an unlocked document for
\* it, first in the store, and u1 has completed it after a failed attempt
C28_Witness ==
    /\ Records(module_progress, "u2", ModuleIdPool[1]) = {1}
    /\ \E i \in Records(module_progress, "u1", ModuleIdPool[1]) :
          /\ module_progress[i].is_completed
          /\ module_progress[i].quiz_attempts = 2
    /\ Unlocked(module_progress, "u1", ModuleIdPool[2])
    /\ ~Completed(module_progress, "u2", ModuleIdPool[1])


(* C29: after any sequence of requests handled one at a time, POST
   /seed-modules among them, aggregate progress of the enrolled learner
   has completed_modules <= total_modules and an overall_progress between
   0.0 and 100.0. *)
C29_ProgressWithinRange ==
    \A r \in {Handle(Db, "progress", ConcUser, CourseId, "", <<>>)} :
        /\ r.f.response.status = 200
        /\ r.f.response.body.completed_modules
                <= r.f.response.body.total_modules
        /\ FloatGE(r.f.response.body.overall_progress, FloatZero)
        /\ ~FloatGreater(r.f.response.body.overall_progress, Hundred)


\* the learner has a document for the module and it is locked
LockedRecord(coll, user_id, module_id) ==
    /\ Records(coll, user_id, module_id) # {}
    /\ ~Unlocked(coll, user_id, module_id)

\* the status of a request handled on db
Status(db, op, user_id, module_id, answers) ==
    Handle(db, op, user_id, CourseId, module_id, answers).f.response.status

\* what a completing submission on the present store does to a locked
\* document of the next module
CascadeUnlocksExistingRecord ==
    \A u \in Users, m \in ModuleIds \ {UnknownModuleId} :
      \A next \in Numbered(modules, CourseId, NumberOf(modules, m) + 1) :
        LockedRecord(module_progress, u, next)
        => /\ DetailStatus(Db, u, CourseId, next) = 403
           /\ \A answers \in AnswerInputs(m) :
                \A r \in {Handle(Db, "submit", u, CourseId, m, answers)} :
                  Completing(Db, r, u, m)
                  => /\ Len(r.db.module_progress) = Len(module_progress)
                     /\ \A i \in Records(module_progress, u, next) :
                           r.db.module_progress[i]
                             = [module_progress[i] EXCEPT !.is_unlocked = TRUE]
                     /\ Status(r.db, "detail", u, next, <<>>) = 200
                     /\ Status(r.db, "quiz", u, next, <<>>) = 200
                     /\ \A a \in AnswerInputs(next) :
                           Status(r.db, "submit", u, next, a)
                             = IF Len(a) = QuestionCount(next)
                               THEN 200 ELSE 400

(* C30: handling requests one at a time, when the learner holds a locked
   document for module N+1 (left by a detail request that was refused as
   locked), a submission that passes and completes module N inserts no
   document and leaves that same document unlocked with its quiz_attempts,
   best_score, is_completed and every other field as they were; after it,
   detail and quiz fetch on module N+1 answer 200, a submission of the
   right length on it is graded and one of a wrong length gets 400, none
   of them 403. *)
C30_CascadeUnlocksExistingRecord == []CascadeUnlocksExistingRecord

\* the document of module 2 is the first of the store, so it was inserted
\* locked by a detail request before module 1 had a document; module 1 has
\* since been completed and the document of module 2 is unlocked
C30_Witness ==
    /\ Len(module_progress) = 2
    /\ module_progress[1].user_id = "u1"
    /\ module_progress[1].module_id = ModuleIdPool[2]
    /\ module_progress[1].is_unlocked
    /\ module_progress[1].quiz_attempts = 0
    /\ Completed(module_progress, "u1", ModuleIdPool[1])
    /\ DetailStatus(Db, "u1", CourseId, ModuleIdPool[2]) = 200


\* the courses a learner can hold a paid enrollment of
Catalog == {CourseId, EmptyCourseId}

\* the operations that name a module
ModuleOps == {"detail", "quiz", "submit"}

\* the response is the 404 of the module lookup and nothing was written
NotFound(r, db) ==
    /\ r.f.response = [status |-> 404, body |-> "Module not found"]
    /\ r.db = db

\* the module id belongs to a module of the course
ModuleOf(mods, course_id, module_id) ==
    \E k \in 1..Len(mods) :
        mods[k].id = module_id /\ mods[k].course_id = course_id

\* what a request naming a module that is not of the requested course gets
\* on the present store
ModuleLookupScoped ==
    \A u \in Users, c \in Catalog :
      Paid(u, c)
      => \A op \in ModuleOps : \A q \in Requests(op) :
           ~ModuleOf(modules, c, q[1])
           => \A r \in {Handle(Db, op, u, c, q[1], q[2])} : NotFound(r, Db)

(* C31: handling requests one at a time, a detail request, a quiz fetch and
   a submission of an enrolled learner that name a module id which is not
   that of a module of the requested course (an id no module has, or the id
   of a module of another course) answer 404 "Module not found" and leave
   every progress document as it was and insert none, also when the
   learner holds an unlocked document for that module id under the course
   the module belongs to. *)
C31_ModuleLookupScoped == []ModuleLookupScoped

\* the learner holds an unlocked document of module 1 under its course and
\* a submission of the right answers on it is graded there, while the same
\* submission under the other course of the learner is not found
C31_Witness ==
    /\ \E i \in Records(module_progress, "u1", ModuleIdPool[1]) :
          /\ module_progress[i].is_unlocked
          /\ module_progress[i].course_id = CourseId
    /\ Paid("u1", EmptyCourseId)
    /\ Status(Db, "submit", "u1", ModuleIdPool[1], AnswerKeys[1]) = 200
    /\ Handle(Db, "submit", "u1", EmptyCourseId, ModuleIdPool[1],
              AnswerKeys[1]).f.response.status = 404
    /\ Handle(Db, "quiz", "u1", EmptyCourseId, ModuleIdPool[1], <<>>)
            .f.response.status = 404


\* the answer lists submitted on any module id: those of SubmittedTo for a
\* seeded module, no answer and the right answers of module 1 for an id no
\* module has
SubmitInputs(module_id) ==
    IF module_id = UnknownModuleId THEN {<<>>, AnswerKeys[1]}
    ELSE SubmittedTo(module_id)

\* the first check of submit_quiz that the request fails, in the order
\* enrollment, module, lock, number of answers; None when it fails none
FirstError(user_id, course_id, module_id, answers) ==
    IF ~Paid(user_id, course_id)
    THEN <<[status |-> 403, body |-> "Not enrolled in this course"]>>
    ELSE IF ~ModuleOf(modules, course_id, module_id)
    THEN <<[status |-> 404, body |-> "Module not found"]>>
    ELSE IF ~Unlocked(module_progress, user_id, module_id)
    THEN <<[status |-> 403, body |-> "Module is locked"]>>
    ELSE IF Len(answers) # QuestionCount(module_id)
    THEN <<[status |-> 400, body |-> "Invalid number of answers"]>>
    ELSE None

\* what a submission on the present store answers, by the checks it fails
ErrorPrecedence ==
    \A u \in Learners, c \in Catalog, m \in ModuleIds :
      \A answers \in SubmitInputs(m) :
        \A r \in {Handle(Db, "submit", u, c, m, answers)} :
          \E error \in {FirstError(u, c, m, answers)} :
            IF error = None
            THEN r.f.response.status = 200
            ELSE r.f.response = error[1] /\ r.db = Db

(* C32: handling requests one at a time, a submission that fails one or
   more of the checks of submit_quiz is answered with the error of the first
   one it fails in the order: no paid enrollment (403 "Not enrolled in this
   course"), module not of the course (404), no unlocked document (403
   "Module is locked"), wrong number of answers (400); so a wrong-length
   answer list on a locked module gets 403 and not 400.  In each of these
   cases the database is left as it was, and a submission that fails none
   of the checks is graded. *)
C32_ErrorPrecedence == []ErrorPrecedence

\* module 1 is completed, module 2 unlocked and module 3 holds a locked
\* document: a list one answer short gets 400 on module 2 and 403 on module
\* 3, no answer at all gets 404 on an id no module has, and the learner
\* without a paid enrollment gets 403 for the same request
C32_Witness ==
    /\ Completed(module_progress, "u1", ModuleIdPool[1])
    /\ Unlocked(module_progress, "u1", ModuleIdPool[2])
    /\ LockedRecord(module_progress, "u1", ModuleIdPool[3])
    /\ Status(Db, "submit", "u1", ModuleIdPool[2],
              SubSeq(AnswerKeys[2], 1, Len(AnswerKeys[2]) - 1)) = 400
    /\ Handle(Db, "submit", "u1", CourseId, ModuleIdPool[3],
              SubSeq(AnswerKeys[3], 1, Len(AnswerKeys[3]) - 1)).f.response
          = [status |-> 403, body |-> "Module is locked"]
    /\ Status(Db, "submit", "u1", UnknownModuleId, <<>>) = 404
    /\ Handle(Db, "submit", "u2", CourseId, UnknownModuleId, <<>>).f.response
          = [status |-> 403, body |-> "Not enrolled in this course"]


\* the modules of the course are numbered 1..n, each number once
Contiguous(mods, course_id) ==
    \A n \in 1..CountDocuments(mods, [course_id |-> course_id]) :
        Cardinality(Numbered(mods, course_id, n)) = 1

\* the module numbers a learner has completed
CompletedNumbers(coll, user_id) ==
    {n \in 1..Len(modules) :
        \E id \in Numbered(modules, CourseId, n) :
            Completed(coll, user_id, id)}

\* the learner's documents are those of a learner who has completed the
\* modules 1..k and no other: no document is unlocked beyond module k+1,
\* and the documents unlocked and not completed are at most one, of k+1
PrefixAt(coll, user_id, k) ==
    /\ CompletedNumbers(coll, user_id) = 1..k
    /\ \A i \in 1..Len(coll) :
          (coll[i].user_id = user_id /\ coll[i].is_unlocked)
          => /\ ModuleOf(modules, CourseId, coll[i].module_id)
             /\ NumberOf(modules, coll[i].module_id) <= k + 1
    /\ Cardinality(InProgress(coll, user_id, CourseId)) <= 1
    /\ \A i \in InProgress(coll, user_id, CourseId) :
          NumberOf(modules, coll[i].module_id) = k + 1

(* C33: in every state reached by requests handled one at a time on the
   course whose modules are numbered 1..n without a gap, for each learner
   there is a k such that the completed modules are exactly the modules
   1..k, every unlocked progress document is of a module numbered at most
   k+1, and at most one document of the learner and course is unlocked and
   not completed, which then is that of module k+1. *)
C33_PrefixStructure ==
    Contiguous(modules, CourseId)
    => \A u \in Users :
          \E k \in 0..Len(modules) : PrefixAt(module_progress, u, k)

\* modules 1 and 2 are completed, module 3 is unlocked and not completed:
\* k is 2 and the one document in progress is that of module 3
C33_Witness ==
    /\ Contiguous(modules, CourseId)
    /\ PrefixAt(module_progress, "u1", 2)
    /\ \E i \in InProgress(module_progress, "u1", CourseId) :
          module_progress[i].module_id = ModuleIdPool[3]


\* passing_score of the module a progress document is about
PassingScoreOf(mods, module_id) ==
    mods[CHOOSE k \in 1..Len(mods) : mods[k].id = module_id]
        .assessment.passing_score

\* a completed document is unlocked, has an attempt, a completed_at and a
\* best_score at or above the passing score of its module
CompletedRecordSound(doc) ==
    /\ doc.is_unlocked
    /\ doc.quiz_attempts >= 1
    /\ doc.completed_at # 0
    /\ FloatGE(doc.best_score, PassingScoreOf(modules, doc.module_id))

(* C34: in every state reached by requests handled one at a time, a
   progress document with is_completed true has is_unlocked true,
   quiz_attempts >= 1, a completed_at that is set and a best_score at or
   above the passing_score of its module. *)
C34_CompletedRecordSound ==
    \A i \in 1..Len(module_progress) :
        module_progress[i].is_completed
        => CompletedRecordSound(module_progress[i])

\* module 1 was failed and then passed with 4 of 5, the passing score
\* itself: the document is completed at the second attempt with best_score
\* 0.8
C34_Witness ==
    \E i \in Records(module_progress, "u1", ModuleIdPool[1]) :
        /\ module_progress[i].is_completed
        /\ module_progress[i].quiz_attempts = 2
        /\ module_progress[i].completed_at = 2
        /\ module_progress[i].best_score = PassingScore


\* the detail request was refused because the module is locked
DetailLocked(response) ==
    response = [status |-> 403,
                body |-> "Module is locked. Complete previous module first."]

\* what the list reports as is_unlocked of each module on the present
\* store, against what a detail request on that module gets
ListAndDetailAgree ==
    \A u \in Users :
      Paid(u, CourseId)
      => \A list \in {Handle(Db, "list", u, CourseId, "", <<>>).f.response} :
           /\ list.status = 200
           /\ {list.body[k].id : k \in 1..Len(list.body)}
                = {modules[k].id : k \in 1..Len(modules)}
           /\ \A k \in 1..Len(list.body) :
                \A detail \in {Handle(Db, "detail", u, CourseId,
                                      list.body[k].id, <<>>).f.response} :
                  /\ detail.status = 200 \/ DetailLocked(detail)
                  /\ list.body[k].progress.is_unlocked
                        <=> detail.status = 200

(* C35: in every state reached by requests handled one at a time, for an
   enrolled learner and every module of the course, the is_unlocked that
   the list reports for the module (the stored one, or the one it makes up
   for a module without a progress document) is true exactly when a
   detail request on that module in the same state is answered 200, and
   false exactly when it is refused as locked. *)
C35_ListAndDetailAgree == []ListAndDetailAgree

\* module 1 is completed, module 2 has an unlocked document and module 3
\* has no document: the list reports module 2 unlocked from the store and
\* module 3 locked by default, and detail gets 200 and 403
C35_Witness ==
    /\ Completed(module_progress, "u1", ModuleIdPool[1])
    /\ Unlocked(module_progress, "u1", ModuleIdPool[2])
    /\ Records(module_progress, "u1", ModuleIdPool[3]) = {}
    /\ Listed(Db, "u1", CourseId, ModuleIdPool[2]).is_unlocked
    /\ ~Listed(Db, "u1", CourseId, ModuleIdPool[3]).is_unlocked
    /\ DetailStatus(Db, "u1", CourseId, ModuleIdPool[2]) = 200
    /\ DetailStatus(Db, "u1", CourseId, ModuleIdPool[3]) = 403


\* the float 1.0
One == FloatOfRatio(1, 1)

(* C36: handling requests one at a time on a catalog in which a module may
   have any number of quiz questions, none included, a submission of the
   enrolled learner on a module that is unlocked for the learner, with as
   many answers as the module has questions, is answered 200 with a
   result whose score is between 0.0 and 1.0. *)
C36_RightLengthIsGraded ==
    \A k \in 1..Len(modules) :
      Unlocked(module_progress, ConcUser, modules[k].id)
      => \A answers \in
              RightLengthInputs(modules[k].assessment.quiz_questions) :
           \A r \in {Handle(Db, "submit", ConcUser, CourseId, modules[k].id,
                            answers)} :
             /\ r.f.response.status = 200
             /\ FloatGE(r.f.response.body.score, FloatZero)
             /\ ~FloatGreater(r.f.response.body.score, One)


(***************************************************************************)
(* SpecLive: the requests of the enrolled learner as in Spec, and the      *)
(* same learner keeping at the lowest-numbered module not yet completed:   *)
(* its detail, then its quiz with every answer right.  The server answers  *)
(* every request it is sent (no handler waits for anything but the         *)
(* database), so these two requests are taken whenever they stay           *)
(* possible: weak fairness.  The learner's submissions may go on after the *)
(* clock has reached MaxClock: one per module is all they need.  TLC       *)
(* evaluates ENABLED without keeping the value of a LET or of an operator  *)
(* argument, so the learner's requests run the handler by RunFrom.         *)
(***************************************************************************)
\* the positions in the catalog of the course's modules user_id has not
\* completed
Uncompleted(user_id) ==
    {k \in 1..Len(modules) :
        /\ modules[k].course_id = CourseId
        /\ ~Completed(module_progress, user_id, modules[k].id)}

\* the position of the lowest-numbered module user_id has not completed
LowestUncompleted(user_id) ==
    LET open == Uncompleted(user_id)
    IN {k \in open :
          \A j \in open :
              modules[k].module_number <= modules[j].module_number}

RECURSIVE RunFrom(_)
\* Run from the frame and database of r, each step's result taken as a
\* value before the next step is made
RunFrom(r) ==
    IF r.f.pc = "done" THEN r
    ELSE CHOOSE end \in {RunFrom(next) : next \in {Step(r.db, r.f)}} : TRUE

\* Handle, by RunFrom
HandleOnce(db, op, user_id, course_id, module_id, answers) ==
    RunFrom(Ret(StartFrame(op, user_id, course_id, module_id, answers), db))

DetailLowest ==
    \E k \in LowestUncompleted(ConcUser) :
        /\ \A p \in Procs : frames[p].pc = "idle"
        /\ \E r \in {HandleOnce(Db, "detail", ConcUser, CourseId,
                                modules[k].id, <<>>)} :
              Handled(r)

SubmitLowest ==
    \E k \in LowestUncompleted(ConcUser) :
        /\ \A p \in Procs : frames[p].pc = "idle"
        /\ \E r \in {HandleOnce(Db, "submit", ConcUser, CourseId,
                                modules[k].id, KeyOf(modules[k].id))} :
              /\ r.db.clock <= MaxClock + NumModules
              /\ module_progress' = r.db.module_progress
              /\ clock' = r.db.clock
              /\ UNCHANGED <<payment_transactions, sessions>>
              /\ UNCHANGED <<enrollments, modules, frames, received, grading>>

\* any request of the learner, as in Spec (the requests of the learner
\* without a paid enrollment change nothing there)
AnyRequest ==
    \E op \in Ops : \E q \in Requests(op) : ServeQuiz(op, q[1], q[2])

NextLive == DetailLowest \/ SubmitLowest \/ AnyRequest

SpecLive ==
    /\ Init
    /\ [][NextLive]_vars
    /\ WF_vars(DetailLowest)
    /\ WF_vars(SubmitLowest)

\* user_id holds a paid enrollment of the course
PaidEnrolled(user_id) ==
    \E i \in 1..Len(enrollments) :
        Matches(enrollments[i], [user_id |-> user_id, course_id |-> CourseId,
                                 payment_status |-> "paid"])

\* user_id has completed every module of the course
EveryModuleCompleted(user_id) == Uncompleted(user_id) = {}

\* the place of user_id's document of module_id in the collection, 0 if
\* there is none; documents are kept in the order of their insertion
Position(coll, user_id, module_id) ==
    IF Records(coll, user_id, module_id) = {} THEN 0
    ELSE CHOOSE i \in 1..Len(coll) :
            coll[i].user_id = user_id /\ coll[i].module_id = module_id

\* user_id's document of every module of the course is unlocked
EveryModuleUnlocked(user_id) ==
    \A k \in 1..Len(modules) :
        modules[k].course_id = CourseId
        => Unlocked(module_progress, user_id, modules[k].id)

(* C37: when requests are handled one at a time and the enrolled learner
   keeps asking for the detail of the lowest-numbered module not yet
   completed and submitting the right answers to its quiz, then from every
   state, whatever documents were stored before, a state is eventually
   reached in which every module of the course is unlocked and
   completed: no module stays locked for ever. *)
C37_ProgressAlwaysPossible ==
    PaidEnrolled(ConcUser)
    ~> (EveryModuleCompleted(ConcUser) /\ EveryModuleUnlocked(ConcUser))

\* every module completed, the document of module 3 stored before that of
\* module 2: it was stored locked, by a detail request
C37_Witness ==
    /\ EveryModuleCompleted(ConcUser)
    /\ Position(module_progress, ConcUser, ModuleIdPool[3]) > 0
    /\ Position(module_progress, ConcUser, ModuleIdPool[3])
         < Position(module_progress, ConcUser, ModuleIdPool[2])


(***************************************************************************)
(* SpecPay: the enrollment and payment routes, handled one at a time, and  *)
(* Stripe.  A checkout session is open until the learner pays it or Stripe *)
(* expires it.  Of a payment transaction the amount, the currency, the     *)
(* e-mail address and the dates are left out: no handler reads them.  The  *)
(* courses collection does not change.  A call to Stripe that fails leaves *)
(* the database as it is (424-426, 456-458).                               *)
(***************************************************************************)
ComingSoonCourseId == "c3"     \* a course with is_coming_soon
UnknownCourseId == "c0"        \* an id no course has
SessionIdPool == <<"s1", "s2", "s3", "s4">>
UnknownSessionId == "s0"       \* an id no session has

\* db.courses
CourseDocs ==
    <<[id |-> CourseId, is_coming_soon |-> FALSE],
      [id |-> EmptyCourseId, is_coming_soon |-> FALSE],
      [id |-> ComingSoonCourseId, is_coming_soon |-> TRUE]>>

\* the collections of the payment routes and the sessions Stripe holds
PayDb ==
    [enrollments |-> enrollments,
     payment_transactions |-> payment_transactions, sessions |-> sessions]

\* PaymentTransaction(session_id, user_id, course_id,
\*                    payment_status="initiated")
PaymentTransaction(session_id, user_id, course_id) ==
    [session_id |-> session_id, user_id |-> user_id, course_id |-> course_id,
     payment_status |-> "initiated"]

\* Enrollment(user_id, course_id, payment_status="pending", session_id)
PendingEnrollment(user_id, course_id, session_id) ==
    [user_id |-> user_id, course_id |-> course_id,
     payment_status |-> "pending", session_id |-> session_id]

\* stripe_checkout.create_checkout_session: a new open session
CheckoutSession(session_id) ==
    [session_id |-> session_id, status |-> "open", payment_status |-> "unpaid"]

\* the response of a payment route and the database it leaves
Reply(status, body, db) == [status |-> status, body |-> body, db |-> db]

\* the session Stripe creates next
NextSessionId(db) == SessionIdPool[Len(db.sessions) + 1]

\* POST /enrollments/checkout
create_checkout(db, user_id, course_id) ==
    LET course == FindOne(CourseDocs, [id |-> course_id])
        existing == FindOne(db.enrollments,
                            [user_id |-> user_id, course_id |-> course_id,
                             payment_status |-> "paid"])
        session_id == NextSessionId(db)
    IN IF course = None THEN Reply(404, "Course not found", db)
       ELSE IF course[1].is_coming_soon
       THEN Reply(400, "This course is not yet available for enrollment", db)
       ELSE IF existing # None
       THEN Reply(400, "Already enrolled in this course", db)
       ELSE Reply(200, [session_id |-> session_id],
                  [sessions |-> Append(db.sessions,
                                       CheckoutSession(session_id)),
                   payment_transactions |->
                       InsertOne(db.payment_transactions,
                                 PaymentTransaction(session_id, user_id,
                                                    course_id)),
                   enrollments |->
                       InsertOne(db.enrollments,
                                 PendingEnrollment(user_id, course_id,
                                                   session_id))])

\* both collections updated by session_id with {"payment_status": status}
SetPaymentStatus(db, session_id, status) ==
    [db EXCEPT
        !.payment_transactions =
            UpdateOne(@, [session_id |-> session_id],
                      [payment_status |-> status]),
        !.enrollments =
            UpdateOne(@, [session_id |-> session_id],
                      [payment_status |-> status])]

\* GET /payments/status/{session_id}
get_payment_status(db, user_id, session_id) ==
    LET transaction == FindOne(db.payment_transactions,
                               [session_id |-> session_id])
        \* stripe_checkout.get_checkout_status(session_id)
        status == FindOne(db.sessions, [session_id |-> session_id])[1]
    IN IF transaction = None THEN Reply(404, "Transaction not found", db)
       ELSE IF transaction[1].user_id # user_id
       THEN Reply(403, "Not authorized", db)
       ELSE IF transaction[1].payment_status = "paid"
       THEN Reply(200, [status |-> "complete", payment_status |-> "paid"],
                  db)
       ELSE Reply(200, [status |-> status.status,
                        payment_status |-> status.payment_status],
                  IF status.payment_status = "paid"
                  THEN SetPaymentStatus(db, session_id, "paid")
                  ELSE IF status.status = "expired"
                  THEN SetPaymentStatus(db, session_id, "expired")
                  ELSE db)

\* POST /webhook/stripe with the event of a session: webhook_response
stripe_webhook(db, webhook_response) ==
    Reply(200, [received |-> TRUE],
          IF webhook_response.payment_status = "paid"
          THEN SetPaymentStatus(db, webhook_response.session_id, "paid")
          ELSE db)

InitPay ==
    /\ modules = SeededModules(0)
    /\ enrollments = <<>>
    /\ module_progress = <<>>
    /\ clock = 0
    /\ frames = [p \in Procs |-> IdleFrame]
    /\ received = 0
    /\ grading = NoGrading
    /\ payment_transactions = <<>>
    /\ sessions = <<>>

\* the database after a payment route has returned
Replied(r) ==
    /\ enrollments' = r.db.enrollments
    /\ payment_transactions' = r.db.payment_transactions
    /\ sessions' = r.db.sessions
    /\ UNCHANGED <<modules, module_progress, clock, frames, received,
                   grading>>

CreateCheckout(user_id, course_id) ==
    /\ Len(sessions) < MaxSessions
    /\ Replied(create_checkout(PayDb, user_id, course_id))

GetPaymentStatus(user_id, session_id) ==
    Replied(get_payment_status(PayDb, user_id, session_id))

\* Stripe delivers the event of one of its sessions
StripeWebhook(i) ==
    Replied(stripe_webhook(PayDb, [session_id |-> sessions[i].session_id,
                                payment_status |->
                                    sessions[i].payment_status]))

\* the learner pays an open session on the page of Stripe
Pay(i) ==
    /\ sessions[i].status = "open"
    /\ sessions' = [sessions EXCEPT ![i].status = "complete",
                                    ![i].payment_status = "paid"]
    /\ UNCHANGED <<enrollments, payment_transactions, modules,
                   module_progress, clock, frames, received, grading>>

\* Stripe expires an open session
Expire(i) ==
    /\ sessions[i].status = "open"
    /\ sessions' = [sessions EXCEPT ![i].status = "expired"]
    /\ UNCHANGED <<enrollments, payment_transactions, modules,
                   module_progress, clock, frames, received, grading>>

NextPay ==
    \/ \E u \in Users :
          \E c \in {CourseId, EmptyCourseId, ComingSoonCourseId,
                    UnknownCourseId} :
              CreateCheckout(u, c)
    \/ \E u \in Users :
          \E s \in {sessions[i].session_id : i \in 1..Len(sessions)}
                      \cup {UnknownSessionId} :
              GetPaymentStatus(u, s)
    \/ \E i \in 1..Len(sessions) : StripeWebhook(i)
    \/ \E i \in 1..Len(sessions) : Pay(i)
    \/ \E i \in 1..Len(sessions) : Expire(i)

SpecPay == InitPay /\ [][NextPay]_vars

\* the paid enrollments of user_id for course_id
PaidEnrollments(coll, user_id, course_id) ==
    CountDocuments(coll, [user_id |-> user_id, course_id |-> course_id,
                          payment_status |-> "paid"])

\* a checkout of a learner who holds a paid enrollment of the course is
\* refused and stores nothing
CheckoutRefusedWhenPaid ==
    \A u \in Users : \A c \in {CourseId, EmptyCourseId} :
        PaidEnrollments(enrollments, u, c) >= 1
        => \A r \in {create_checkout(PayDb, u, c)} :
              /\ r.status = 400
              /\ r.body = "Already enrolled in this course"
              /\ r.db = PayDb

(* C38: handling checkout, payment status poll and webhook requests one at
   a time, with the learner paying sessions and Stripe expiring them in
   between, a checkout for a course of which the learner holds a paid
   enrollment is refused with 400 'Already enrolled in this course', and no
   learner has more than one enrollment of the same course with
   payment_status 'paid'. *)
C38_AtMostOnePaidEnrollment ==
    /\ CheckoutRefusedWhenPaid
    /\ \A u \in Users : \A c \in {CourseId, EmptyCourseId} :
          PaidEnrollments(enrollments, u, c) <= 1

=============================================================================
